---------------------------- MODULE Spec2Model ----------------------------
(***************************************************************************)
(* Spark simulator kernel (src/unnamed/part_000, src/main.js): the         *)
(* Simulation stepper, the per-cast per-target cooldown gate and the       *)
(* Split -> Pierce -> Fork -> Chain hit resolution.                        *)
(*                                                                         *)
(* Units.  Floating point numbers of the program are fixed-point integers  *)
(* here:                                                                   *)
(*   lengths  half a pixel (one pixel per world unit, so 2 per world unit) *)
(*   time     a third of a millisecond (fixedDt = 1/120 s = 25)            *)
(*   angles   degrees, multiples of 30 (cos/sin by table, in thousandths)  *)
(*   t        hit fractions in [0,1] in thousandths                        *)
(* null is -1 where the program returns null for a fraction.               *)
(*                                                                         *)
(* Scope.  One Simulation on a canvas of fixed size with the square arena; *)
(* the positions of caster and boss are those of the URL parameters (the   *)
(* pointer drag and the resize of the window are not modelled).  loop is   *)
(* the sequence of its calls of step(fixedDt); the wall clock read by step *)
(* advances by an amount chosen by the environment.                        *)
(***************************************************************************)
EXTENDS Integers, Sequences, FiniteSets, TLC

(***************************************************************************)
(* Program constants, in the model's units                                 *)
(***************************************************************************)
\* pixels-per-world-unit scale of computeScale for a 360 px canvas (1 px per
\* world unit), in length units (half pixels) per world unit
scale == 2
\* PER_CAST_TARGET_COOLDOWN * 1000 ms = 660 ms
PER_CAST_TARGET_COOLDOWN == 1980
BOSS_RADIUS_UNITS == 3
\* PROJ_RADIUS_UNITS = 1.5 world units, doubled to stay an integer
PROJ_RADIUS_UNITS_X2 == 3
BASE_PROJ_SPEED_UNITS == 80
ARENA_RADIUS_UNITS == 160
\* this.fixedDt = 1/120 s
fixedDt == 25
\* one second (the /1000 of Projectile.age, the 1/castSpeed of castInterval)
SECOND == 3000
\* the clamp of a frame's dt in loop: 0.05 s
maxFrameDt == 150
\* this.maxTerrainStepPx = 2.0 px
maxTerrainStepPx == 4
\* the 0.5 px of the pierce nudge
NUDGE == 1
\* const windowMs = 5000
windowMs == 15000
TWO_PI == 360
\* const forkAngle = 60 * DEG_TO_RAD
forkAngle == 60
\* canvas.width = canvas.height = 360 px
CANVAS == 720
\* castInterval of a non-positive castSpeed (Infinity)
Infinity == 1000000000
\* the null of sweptCircleHitT
null == -1
\* resolution of a hit fraction t (thousandths)
TONE == 1000

(***************************************************************************)
(* Arithmetic helpers                                                      *)
(***************************************************************************)
Max(a, b) == IF a >= b THEN a ELSE b
Min(a, b) == IF a <= b THEN a ELSE b
clamp(value, lo, hi) == Max(lo, Min(hi, value))

\* a / b rounded to the nearest integer (b > 0), halves away from zero
RDiv(a, b) == IF a >= 0 THEN (2 * a + b) \div (2 * b)
                        ELSE -((2 * (-a) + b) \div (2 * b))

\* Math.ceil(a / b) for a >= 0, b > 0
CeilDiv(a, b) == (a + b - 1) \div b

RECURSIVE IsqrtIter(_, _, _)
IsqrtIter(n, lo, hi) ==
  IF lo >= hi THEN lo
  ELSE LET mid == (lo + hi + 1) \div 2
       IN IF mid * mid <= n THEN IsqrtIter(n, mid, hi)
                            ELSE IsqrtIter(n, lo, mid - 1)

\* floor(Math.sqrt(n))
Isqrt(n) == IsqrtIter(n, 0, Min(n, 46340))

\* Math.cos / Math.sin of an angle in degrees (a multiple of 30), thousandths
CosMilli(deg) ==
  <<1000, 866, 500, 0, -500, -866, -1000, -866, -500, 0, 500, 866>>
     [((deg % 360) \div 30) + 1]
SinMilli(deg) == CosMilli(deg - 90)

\* Math.atan2(vy, vx) of a velocity pointing along `deg`: the angle in (-180, 180]
Atan2Deg(deg) == LET a == deg % 360 IN IF a > 180 THEN a - 360 ELSE a

(***************************************************************************)
(* Geometry primitives                                                     *)
(***************************************************************************)
\* sweptCircleHitT: earliest fraction t (thousandths) at which the mover
\* p -> p + d touches the circle of combined radius R at c, or null.
\* With c > 0 the second root t2 is in [0,1] only if t1 is, so t1 decides.
sweptCircleHitT(px, py, dx, dy, cx, cy, R) ==
  LET mx == px - cx
      my == py - cy
      a == dx * dx + dy * dy
      b == 2 * (dx * mx + dy * my)
      c == mx * mx + my * my - R * R
      disc == b * b - 4 * a * c
      sqrt == Isqrt(disc)
      t1 == ((-b - sqrt) * TONE) \div (2 * a)
      t2 == ((-b + sqrt) * TONE) \div (2 * a)
  IN  IF c <= 0 THEN 0
      ELSE IF a = 0 THEN null
      ELSE IF disc < 0 THEN null
      ELSE IF t1 >= 0 /\ t1 <= TONE THEN t1
      ELSE IF t2 >= 0 /\ t2 <= TONE THEN t2
      ELSE null

(***************************************************************************)
(* Projectile                                                              *)
(***************************************************************************)
\* new Projectile(config).  id is the random identifier, here a counter value.
\* History fields: splitAncestor, the projectile descends from a split;
\* pierces, the number of times pierce fired on it; bounces, the number of
\* times a wall reflected it.
\* vx, vy are cos/sin(angle) * speed throughout the program (constructor,
\* think, reflect), so they are derived from angle and speed (Vx, Vy).
Projectile(config, id, splitAncestor) ==
  [ id |-> id,
    castId |-> config.castId,
    x |-> config.x,
    y |-> config.y,
    speed |-> config.speed,
    angle |-> config.angle,
    radius |-> (PROJ_RADIUS_UNITS_X2 * scale) \div 2,
    spawnTime |-> config.now,
    duration |-> config.duration,
    pierceRemaining |-> config.pierceCount,
    forkRemaining |-> config.forkTimes,
    chainRemaining |-> config.chainCount,
    splitCount |-> config.splitCount,
    hasSplit |-> FALSE,
    splitAncestor |-> splitAncestor,
    pierces |-> 0,
    bounces |-> 0 ]

\* velocity in length units per second
Vx(proj) == RDiv(CosMilli(proj.angle) * proj.speed, 1000)
Vy(proj) == RDiv(SinMilli(proj.angle) * proj.speed, 1000)

\* age(now), in time units (the program divides by 1000 to get seconds)
age(proj, now) == now - proj.spawnTime

\* Variant of isExpired that also expires at age = duration
isExpiredInclusive(proj, now) ==
  age(proj, now) >= proj.duration /\ proj.duration >= 0

isExpired(proj, now) == age(proj, now) > proj.duration /\ proj.duration >= 0

\* think(dt): the Wander step adds `delta` (its random jitter and heading
\* events) to the angle
think(proj, delta) == [proj EXCEPT !.angle = @ + delta]

\* Math.atan2(uy, ux) of the vector (ux, uy) given in thousandths: the angle
\* in (-180, 180]; the model's angles are the multiples of 30, so the result
\* is the multiple of 30 whose direction is the closest to (ux, uy), which
\* is the exact angle whenever (ux, uy) is one of the twelve directions
atan2(uy, ux) ==
  LET along(a) == CosMilli(a) * ux + SinMilli(a) * uy
      Headings == {30 * k - 150 : k \in 0..11}
  IN  IF ux = 0 /\ uy = 0 THEN 0
      ELSE CHOOSE a \in Headings : \A b \in Headings : along(a) >= along(b)

\* Variant of reflect that reverses the velocity
reflectReverses(proj, nx, ny, nn) == [proj EXCEPT !.angle = Atan2Deg(@ + 180)]

\* reflect(nx, ny): v - 2 (v.n) n about the normal (nx, ny) / sqrt(nn), the
\* angle re-derived by atan2 of the new velocity; the speed |v| is kept
reflect(proj, nx, ny, nn) ==
  LET ux == CosMilli(proj.angle)
      uy == SinMilli(proj.angle)
      vdotn == ux * nx + uy * ny
      rx == ux - (2 * vdotn * nx) \div nn
      ry == uy - (2 * vdotn * ny) \div nn
  IN  [proj EXCEPT !.angle = atan2(ry, rx)]

(***************************************************************************)
(* Arena (SquareArena)                                                     *)
(***************************************************************************)
\* this.rect of SquareArena: side = ARENA_RADIUS_UNITS * 2 * scale, centred
rect ==
  LET side == ARENA_RADIUS_UNITS * 2 * scale
  IN  [x |-> (CANVAS - side) \div 2, y |-> (CANVAS - side) \div 2,
       w |-> side, h |-> side]

\* SquareArena.collideCircle(x, y, r); (nx, ny) is returned unnormalised with
\* nn = nx^2 + ny^2 (the program divides by Math.hypot(nx, ny) || 1)
collideCircle(x, y, r) ==
  LET hitL == x - r < rect.x
      hitR == x + r > rect.x + rect.w
      hitT == y - r < rect.y
      hitB == y + r > rect.y + rect.h
      px == IF hitR THEN rect.x + rect.w - r ELSE IF hitL THEN rect.x + r ELSE x
      py == IF hitB THEN rect.y + rect.h - r ELSE IF hitT THEN rect.y + r ELSE y
      nx == IF hitR THEN 1 ELSE IF hitL THEN -1 ELSE 0
      ny == IF hitB THEN 1 ELSE IF hitT THEN -1 ELSE 0
  IN  [hit |-> hitL \/ hitR \/ hitT \/ hitB, nx |-> nx, ny |-> ny,
       nn |-> Max(1, nx * nx + ny * ny), x |-> px, y |-> py]

(***************************************************************************)
(* Arena (CircleArena)                                                     *)
(***************************************************************************)
\* this.center and this.radius of CircleArena
circleArena ==
  [ center |-> [x |-> CANVAS \div 2, y |-> CANVAS \div 2],
    radius |-> ARENA_RADIUS_UNITS * scale ]

\* Variant of CircleArena.collideCircle that reflects without moving the
\* circle back to the boundary
collideCircleRoundKeepsPosition(x, y, r) ==
  LET dx == x - circleArena.center.x
      dy == y - circleArena.center.y
      limit == circleArena.radius - r
  IN  [hit |-> dx * dx + dy * dy > limit * limit, nx |-> dx, ny |-> dy,
       nn |-> Max(1, dx * dx + dy * dy), x |-> x, y |-> y]

\* CircleArena.collideCircle(x, y, r): beyond radius - r from the centre the
\* circle is put on the boundary along the radial direction.  (nx, ny) is
\* returned unnormalised with nn = nx^2 + ny^2; the corrected point is taken
\* on the grid of length units, towards the centre
collideCircleRound(x, y, r) ==
  LET dx == x - circleArena.center.x
      dy == y - circleArena.center.y
      d2 == dx * dx + dy * dy
      limit == circleArena.radius - r
      \* Math.hypot(dx, dy), rounded up
      dist == IF d2 = 0 THEN 0 ELSE Isqrt(d2 - 1) + 1
      along(c) == IF c >= 0 THEN (c * limit) \div dist
                            ELSE -(((-c) * limit) \div dist)
  IN  IF d2 > limit * limit
      THEN [hit |-> TRUE, nx |-> dx, ny |-> dy, nn |-> d2,
            x |-> circleArena.center.x + along(dx),
            y |-> circleArena.center.y + along(dy)]
      ELSE [hit |-> FALSE, nx |-> 0, ny |-> 0, nn |-> 1, x |-> x, y |-> y]

(***************************************************************************)
(* Arena (TJunctionArena)                                                  *)
(***************************************************************************)
\* Simulation.computeScale(): max(0.5, min((w - margin*2) / 320,
\* (h - margin*2) / 320)) with margin = 20 px; exact for the canvases whose
\* sides are 80 + 320 k length units, and for those under the lower limit
computeScale(width, height) ==
  Max(1, Min((width - 80) \div 320, (height - 80) \div 320))

\* Variant of the constructor of TJunctionArena whose bar bottom wall is
\* continuous
TJunctionArenaClosedBar(width, height, scl) ==
  LET cx == width \div 2
      cy == height \div 2
      sW == 100 * scl
      sH == 260 * scl
      bW == 320 * scl
      bH == 80 * scl
      connectY == cy - sH \div 2
      topMargin == 40
      shift == IF connectY - bH \div 2 < topMargin
               THEN topMargin - (connectY - bH \div 2) ELSE 0
      barTopY == connectY - bH \div 2 + shift
      barBotY == connectY + bH \div 2 + shift
      stemLeftX == cx - sW \div 2
      stemRightX == cx + sW \div 2
      stemBotY == cy + sH \div 2
      barLeftX == cx - bW \div 2
      barRightX == cx + bW \div 2
      seg(x1, y1, x2, y2) == [x1 |-> x1, y1 |-> y1, x2 |-> x2, y2 |-> y2]
  IN  << seg(stemLeftX, barBotY, stemLeftX, stemBotY),
         seg(stemRightX, barBotY, stemRightX, stemBotY),
         seg(stemLeftX, stemBotY, stemRightX, stemBotY),
         seg(barLeftX, barTopY, barRightX, barTopY),
         seg(barLeftX, barBotY, stemRightX, barBotY),
         seg(stemRightX, barBotY, barRightX, barBotY),
         seg(barLeftX, barTopY, barLeftX, barBotY),
         seg(barRightX, barTopY, barRightX, barBotY) >>

\* new TJunctionArena(width, height, scale).segments: the eight walls, in the
\* order of the constructor.  topMargin is 20 px.
TJunctionArena(width, height, scl) ==
  LET cx == width \div 2
      cy == height \div 2
      sW == 100 * scl
      sH == 260 * scl
      bW == 320 * scl
      bH == 80 * scl
      connectY == cy - sH \div 2
      topMargin == 40
      shift == IF connectY - bH \div 2 < topMargin
               THEN topMargin - (connectY - bH \div 2) ELSE 0
      barTopY == connectY - bH \div 2 + shift
      barBotY == connectY + bH \div 2 + shift
      stemLeftX == cx - sW \div 2
      stemRightX == cx + sW \div 2
      stemBotY == cy + sH \div 2
      barLeftX == cx - bW \div 2
      barRightX == cx + bW \div 2
      seg(x1, y1, x2, y2) == [x1 |-> x1, y1 |-> y1, x2 |-> x2, y2 |-> y2]
  IN  << seg(stemLeftX, barBotY, stemLeftX, stemBotY),
         seg(stemRightX, barBotY, stemRightX, stemBotY),
         seg(stemLeftX, stemBotY, stemRightX, stemBotY),
         seg(barLeftX, barTopY, barRightX, barTopY),
         seg(barLeftX, barBotY, stemLeftX, barBotY),
         seg(stemRightX, barBotY, barRightX, barBotY),
         seg(barLeftX, barTopY, barLeftX, barBotY),
         seg(barRightX, barTopY, barRightX, barBotY) >>

\* sweptCircleSegmentTOI(p0x, p0y, dx, dy, ax, ay, bx, by, r): the earliest
\* fraction t (thousandths) at which the circle of radius r moving along
\* p0 -> p0 + d touches the segment AB thickened by r, with the normal
\* (nx, ny) / sqrt(nn) at the contact; null when there is none.  The unit
\* tangent is held in thousandths (exact for the walls of the arenas, which
\* are parallel to the axes); EPS = 1e-9 is below the grid of the model.
sweptCircleSegmentTOI(p0x, p0y, dx, dy, ax, ay, bx, by, r) ==
  LET ux == bx - ax
      uy == by - ay
      L == Isqrt(ux * ux + uy * uy)
      \* the candidate of the strip side sgn, as a sequence of 0 or 1 hits
      strip(sgn, unx, uny) ==
        LET nx0 == -uny
            ny0 == unx
            inRange(t) ==
              LET px == p0x + RDiv(dx * t, TONE)
                  py == p0y + RDiv(dy * t, TONE)
                  s == unx * (px - ax) + uny * (py - ay)
                  side == nx0 * (px - ax) + ny0 * (py - ay)
              IN  IF s >= 0 /\ s <= L * TONE
                  THEN << [t |-> t,
                           nx |-> IF side >= 0 THEN nx0 ELSE -nx0,
                           ny |-> IF side >= 0 THEN ny0 ELSE -ny0,
                           nn |-> TONE * TONE] >>
                  ELSE <<>>
            solve(num, den) ==
              IF den > 0 /\ num >= 0 /\ num <= den
              THEN inRange((num * TONE) \div den)
              ELSE <<>>
            signed(p0n, dn) ==
              IF dn > 0 THEN solve(sgn * r * TONE - p0n, dn)
                        ELSE solve(p0n - sgn * r * TONE, -dn)
        IN  signed(nx0 * (p0x - ax) + ny0 * (p0y - ay), nx0 * dx + ny0 * dy)
      \* the candidate of the endcap circle at (ex, ey)
      endcap(ex, ey) ==
        LET hitAt(t) ==
              LET vx == p0x + RDiv(dx * t, TONE) - ex
                  vy == p0y + RDiv(dy * t, TONE) - ey
              IN  IF t # null
                  THEN << [t |-> t, nx |-> vx, ny |-> vy,
                           nn |-> Max(1, vx * vx + vy * vy)] >>
                  ELSE <<>>
        IN  hitAt(sweptCircleHitT(p0x, p0y, dx, dy, ex, ey, r))
      earlier(best, c) == IF c.t < best.t THEN c ELSE best
      pick(cs) ==
        IF cs = <<>> THEN [t |-> null]
        ELSE IF Len(cs) = 1 THEN cs[1]
        ELSE IF Len(cs) = 2 THEN earlier(cs[1], cs[2])
        ELSE IF Len(cs) = 3 THEN earlier(earlier(cs[1], cs[2]), cs[3])
        ELSE earlier(earlier(earlier(cs[1], cs[2]), cs[3]), cs[4])
      both(unx, uny) ==
        pick(strip(1, unx, uny) \o strip(-1, unx, uny)
               \o endcap(ax, ay) \o endcap(bx, by))
  IN  IF L = 0 THEN pick(endcap(ax, ay))
      ELSE both(RDiv(ux * TONE, L), RDiv(uy * TONE, L))

\* the loop over this.arena.segments of step: the earliest hit (the first of
\* the earliest in the order of the segments), or t = null
RECURSIVE bestHit(_, _, _, _, _, _, _, _)
bestHit(segments, i, best, p0x, p0y, dx, dy, r) ==
  IF i > Len(segments) THEN best
  ELSE LET seg == segments[i]
           hit == sweptCircleSegmentTOI(p0x, p0y, dx, dy,
                                        seg.x1, seg.y1, seg.x2, seg.y2, r)
       IN  bestHit(segments, i + 1,
                   IF hit.t # null /\ (best.t = null \/ hit.t < best.t)
                   THEN hit ELSE best,
                   p0x, p0y, dx, dy, r)

(***************************************************************************)
(* Simulation: hit gate and hit resolution.  S is the record of the        *)
(* Simulation's fields (and the module-global nextCastId).                 *)
(***************************************************************************)
targetId == "boss"

\* Variant of lockOf with one cooldown shared by all casts: the latest entry
\* of the ledger, whatever its cast
lockOfAnyCast(locks, castId) ==
  IF DOMAIN locks = {} THEN 0
  ELSE CHOOSE v \in {locks[k] : k \in DOMAIN locks} :
         \A k \in DOMAIN locks : locks[k] <= v

\* this.castTargetLocks.get(key) || 0
lockOf(locks, castId) ==
  IF <<castId, targetId>> \in DOMAIN locks THEN locks[<<castId, targetId>>] ELSE 0

\* Map.set(key, value)
mapSet(locks, key, value) ==
  [k \in DOMAIN locks \cup {key} |-> IF k = key THEN value ELSE locks[k]]

\* Variant of tryApplyHit that forgets the factor 1000 of the cooldown
\* (0.66 ms instead of 0.66 s)
tryApplyHitMillis(S, proj, now) ==
  LET key == <<proj.castId, targetId>>
      nextOk == lockOf(S.castTargetLocks, proj.castId)
  IN  IF now >= nextOk
      THEN [S |-> [S EXCEPT !.hitsTotal = @ + 1,
                            !.totalDamage = @ + S.config.avgHit,
                            !.hitTimestamps = Append(@, now),
                            !.castTargetLocks =
                               mapSet(@, key,
                                      now + PER_CAST_TARGET_COOLDOWN \div 1000)],
            registered |-> TRUE]
      ELSE [S |-> S, registered |-> FALSE]

\* Variant of tryApplyHit that records the timestamp of a blocked attempt too
tryApplyHitStampsAlways(S, proj, now) ==
  LET key == <<proj.castId, targetId>>
      nextOk == lockOf(S.castTargetLocks, proj.castId)
  IN  IF now >= nextOk
      THEN [S |-> [S EXCEPT !.hitsTotal = @ + 1,
                            !.totalDamage = @ + S.config.avgHit,
                            !.hitTimestamps = Append(@, now),
                            !.castTargetLocks =
                               mapSet(@, key, now + PER_CAST_TARGET_COOLDOWN)],
            registered |-> TRUE]
      ELSE [S |-> [S EXCEPT !.hitTimestamps = Append(@, now)],
            registered |-> FALSE]

\* Variant of tryApplyHit that extends the previous next-allowed time
\* instead of starting the cooldown at the hit
tryApplyHitFromPreviousLock(S, proj, now) ==
  LET key == <<proj.castId, targetId>>
      nextOk == lockOf(S.castTargetLocks, proj.castId)
  IN  IF now >= nextOk
      THEN [S |-> [S EXCEPT !.hitsTotal = @ + 1,
                            !.totalDamage = @ + S.config.avgHit,
                            !.hitTimestamps = Append(@, now),
                            !.castTargetLocks =
                               mapSet(@, key,
                                      nextOk + PER_CAST_TARGET_COOLDOWN)],
            registered |-> TRUE]
      ELSE [S |-> S, registered |-> FALSE]

\* Variant of tryApplyHit whose next-allowed time is the time of the hit
\* (no cooldown)
tryApplyHitNoCooldown(S, proj, now) ==
  LET key == <<proj.castId, targetId>>
      nextOk == lockOf(S.castTargetLocks, proj.castId)
  IN  IF now >= nextOk
      THEN [S |-> [S EXCEPT !.hitsTotal = @ + 1,
                            !.totalDamage = @ + S.config.avgHit,
                            !.hitTimestamps = Append(@, now),
                            !.castTargetLocks = mapSet(@, key, now)],
            registered |-> TRUE]
      ELSE [S |-> S, registered |-> FALSE]

\* tryApplyHit(proj, now): the per cast, per target cooldown gate
tryApplyHit(S, proj, now) ==
  LET key == <<proj.castId, targetId>>
      nextOk == lockOf(S.castTargetLocks, proj.castId)
  IN  IF now >= nextOk
      THEN [S |-> [S EXCEPT !.hitsTotal = @ + 1,
                            !.totalDamage = @ + S.config.avgHit,
                            !.hitTimestamps = Append(@, now),
                            !.castTargetLocks =
                               mapSet(@, key, now + PER_CAST_TARGET_COOLDOWN)],
            registered |-> TRUE]
      ELSE [S |-> S, registered |-> FALSE]

\* this.projectiles.push(new Projectile(...)) for each config of `configs`
pushAll(S, configs, splitAncestor) ==
  [S EXCEPT
     !.projectiles = @ \o [i \in 1..Len(configs) |->
                             Projectile(configs[i], S.nextProjId + i - 1,
                                        splitAncestor)],
     !.nextProjId = @ + Len(configs)]

\* 1) Split: the condition and the branch
splitEligible(proj) == ~proj.hasSplit /\ proj.splitCount > 0

\* Variant of splitBranch whose headings start half a step off: (i + 1/2) / n
splitBranchOffsetHeadings(S, proj, pnow) ==
  LET n == Max(1, proj.splitCount)
      child(i) == [castId |-> proj.castId, x |-> proj.x, y |-> proj.y,
                   angle |-> ((2 * i + 1) * TWO_PI) \div (2 * n),
                   speed |-> proj.speed, now |-> pnow,
                   duration |-> Max(0, proj.duration - age(proj, pnow)),
                   pierceCount |-> proj.pierceRemaining,
                   forkTimes |-> proj.forkRemaining,
                   chainCount |-> proj.chainRemaining,
                   splitCount |-> 0]
  IN  [S |-> pushAll(S, [i \in 1..n |-> child(i - 1)], TRUE),
       proj |-> [proj EXCEPT !.hasSplit = TRUE],
       res |-> "remove"]

\* Variant of splitBranch whose children keep the parent's splitCount
splitBranchKeepsSplitCount(S, proj, pnow) ==
  LET n == Max(1, proj.splitCount)
      child(i) == [castId |-> proj.castId, x |-> proj.x, y |-> proj.y,
                   angle |-> (i * TWO_PI) \div n,
                   speed |-> proj.speed, now |-> pnow,
                   duration |-> Max(0, proj.duration - age(proj, pnow)),
                   pierceCount |-> proj.pierceRemaining,
                   forkTimes |-> proj.forkRemaining,
                   chainCount |-> proj.chainRemaining,
                   splitCount |-> proj.splitCount]
  IN  [S |-> pushAll(S, [i \in 1..n |-> child(i - 1)], TRUE),
       proj |-> [proj EXCEPT !.hasSplit = TRUE],
       res |-> "remove"]

splitBranch(S, proj, pnow) ==
  LET n == Max(1, proj.splitCount)
      child(i) == [castId |-> proj.castId, x |-> proj.x, y |-> proj.y,
                   angle |-> (i * TWO_PI) \div n,
                   speed |-> proj.speed, now |-> pnow,
                   duration |-> Max(0, proj.duration - age(proj, pnow)),
                   pierceCount |-> proj.pierceRemaining,
                   forkTimes |-> proj.forkRemaining,
                   chainCount |-> proj.chainRemaining,
                   splitCount |-> 0]
  IN  [S |-> pushAll(S, [i \in 1..n |-> child(i - 1)], TRUE),
       proj |-> [proj EXCEPT !.hasSplit = TRUE],
       res |-> "remove"]

\* 2) Pierce: decrement and nudge to boss.x + nx * (boss.r + radius + 0.5)
\* with nx = dx / (d || 1); d = Math.hypot(dx, dy) is taken to 1/100 unit
\* Variant of pierceEligible that lets a projectile without pierces pierce
pierceEligibleAtZero(proj) == proj.pierceRemaining >= 0

pierceEligible(proj) == proj.pierceRemaining > 0

\* Variant of pierceBranch that spends a fork as well
pierceBranchSpendsFork(S, proj) ==
  LET dx == proj.x - S.boss.x
      dy == proj.y - S.boss.y
      d100 == Isqrt((dx * dx + dy * dy) * 10000)
      nudged == IF d100 = 0
                THEN S.boss.x + dx * (S.boss.r + proj.radius + NUDGE)
                ELSE S.boss.x +
                     RDiv(dx * (S.boss.r + proj.radius + NUDGE) * 100, d100)
  IN  [S |-> S,
       proj |-> [proj EXCEPT !.pierceRemaining = @ - 1, !.x = nudged,
                             !.forkRemaining = Max(0, @ - 1)],
       res |-> "keep"]

pierceBranch(S, proj) ==
  LET dx == proj.x - S.boss.x
      dy == proj.y - S.boss.y
      d100 == Isqrt((dx * dx + dy * dy) * 10000)
      nudged == IF d100 = 0
                THEN S.boss.x + dx * (S.boss.r + proj.radius + NUDGE)
                ELSE S.boss.x +
                     RDiv(dx * (S.boss.r + proj.radius + NUDGE) * 100, d100)
  IN  [S |-> S,
       proj |-> [proj EXCEPT !.pierceRemaining = @ - 1, !.x = nudged],
       res |-> "keep"]

\* 3) Fork: two children at base +- 60 degrees, a third at base when
\* Math.random() * 100 (= roll) < forkChance
forkEligible(proj) == proj.forkRemaining > 0

\* Variant of forkBranch whose roll also succeeds when it equals forkChance
forkBranchRollInclusive(S, proj, pnow, roll) ==
  LET base == Atan2Deg(proj.angle)
      childAngles == <<base + forkAngle, base - forkAngle>> \o
                     (IF roll <= S.config.forkChance THEN <<base>> ELSE <<>>)
      child(a) == [castId |-> proj.castId, x |-> proj.x, y |-> proj.y,
                   angle |-> a,
                   speed |-> proj.speed, now |-> pnow,
                   duration |-> Max(0, proj.duration - age(proj, pnow)),
                   pierceCount |-> proj.pierceRemaining,
                   forkTimes |-> proj.forkRemaining - 1,
                   chainCount |-> proj.chainRemaining,
                   splitCount |-> 0]
  IN  [S |-> pushAll(S, [i \in 1..Len(childAngles) |-> child(childAngles[i])],
                     proj.splitAncestor),
       proj |-> proj,
       res |-> "remove"]

\* Variant of forkBranch whose children keep the parent's fork budget
forkBranchKeepsBudget(S, proj, pnow, roll) ==
  LET base == Atan2Deg(proj.angle)
      childAngles == <<base + forkAngle, base - forkAngle>> \o
                     (IF roll < S.config.forkChance THEN <<base>> ELSE <<>>)
      child(a) == [castId |-> proj.castId, x |-> proj.x, y |-> proj.y,
                   angle |-> a,
                   speed |-> proj.speed, now |-> pnow,
                   duration |-> Max(0, proj.duration - age(proj, pnow)),
                   pierceCount |-> proj.pierceRemaining,
                   forkTimes |-> proj.forkRemaining,
                   chainCount |-> proj.chainRemaining,
                   splitCount |-> 0]
  IN  [S |-> pushAll(S, [i \in 1..Len(childAngles) |-> child(childAngles[i])],
                     proj.splitAncestor),
       proj |-> proj,
       res |-> "remove"]

forkBranch(S, proj, pnow, roll) ==
  LET base == Atan2Deg(proj.angle)
      childAngles == <<base + forkAngle, base - forkAngle>> \o
                     (IF roll < S.config.forkChance THEN <<base>> ELSE <<>>)
      child(a) == [castId |-> proj.castId, x |-> proj.x, y |-> proj.y,
                   angle |-> a,
                   speed |-> proj.speed, now |-> pnow,
                   duration |-> Max(0, proj.duration - age(proj, pnow)),
                   pierceCount |-> proj.pierceRemaining,
                   forkTimes |-> proj.forkRemaining - 1,
                   chainCount |-> proj.chainRemaining,
                   splitCount |-> 0]
  IN  [S |-> pushAll(S, [i \in 1..Len(childAngles) |-> child(childAngles[i])],
                     proj.splitAncestor),
       proj |-> proj,
       res |-> "remove"]

\* Variant of handleProjectileEnemyCollision whose split does not return: the
\* pierce branch runs after it
handleCollisionSplitThenPierce(S, proj, now, pnow, roll) ==
  LET dx == proj.x - S.boss.x
      dy == proj.y - S.boss.y
      R == proj.radius + S.boss.r
      hit == tryApplyHit(S, proj, now)
      split == splitBranch(hit.S, proj, pnow)
  IN  IF dx * dx + dy * dy <= R * R
      THEN IF hit.registered
           THEN IF splitEligible(proj)
                  THEN IF pierceEligible(proj)
                         THEN pierceBranch(split.S, split.proj)
                         ELSE split
                ELSE IF pierceEligible(proj) THEN pierceBranch(hit.S, proj)
                ELSE IF forkEligible(proj)
                       THEN forkBranch(hit.S, proj, pnow, roll)
                ELSE [S |-> hit.S, proj |-> proj, res |-> "remove"]
           ELSE [S |-> hit.S, proj |-> proj, res |-> "keep"]
      ELSE [S |-> S, proj |-> proj, res |-> "keep"]

\* Variant of handleProjectileEnemyCollision that tries fork before pierce
handleCollisionForkFirst(S, proj, now, pnow, roll) ==
  LET dx == proj.x - S.boss.x
      dy == proj.y - S.boss.y
      R == proj.radius + S.boss.r
      hit == tryApplyHit(S, proj, now)
  IN  IF dx * dx + dy * dy <= R * R
      THEN IF hit.registered
           THEN IF splitEligible(proj) THEN splitBranch(hit.S, proj, pnow)
                ELSE IF forkEligible(proj)
                       THEN forkBranch(hit.S, proj, pnow, roll)
                ELSE IF pierceEligible(proj) THEN pierceBranch(hit.S, proj)
                ELSE [S |-> hit.S, proj |-> proj, res |-> "remove"]
           ELSE [S |-> hit.S, proj |-> proj, res |-> "keep"]
      ELSE [S |-> S, proj |-> proj, res |-> "keep"]

\* Variant of handleProjectileEnemyCollision whose chain branch keeps the
\* projectile
handleCollisionChainKeeps(S, proj, now, pnow, roll) ==
  LET dx == proj.x - S.boss.x
      dy == proj.y - S.boss.y
      R == proj.radius + S.boss.r
      hit == tryApplyHit(S, proj, now)
  IN  IF dx * dx + dy * dy <= R * R
      THEN IF hit.registered
           THEN IF splitEligible(proj) THEN splitBranch(hit.S, proj, pnow)
                ELSE IF pierceEligible(proj) THEN pierceBranch(hit.S, proj)
                ELSE IF forkEligible(proj)
                       THEN forkBranch(hit.S, proj, pnow, roll)
                ELSE IF proj.chainRemaining > 0
                       THEN [S |-> hit.S, proj |-> proj, res |-> "keep"]
                ELSE [S |-> hit.S, proj |-> proj, res |-> "remove"]
           ELSE [S |-> hit.S, proj |-> proj, res |-> "keep"]
      ELSE [S |-> S, proj |-> proj, res |-> "keep"]

\* handleProjectileEnemyCollision(proj, now): `now` is the collision time,
\* pnow the performance.now() read inside the branches, roll the fork roll
handleProjectileEnemyCollision(S, proj, now, pnow, roll) ==
  LET dx == proj.x - S.boss.x
      dy == proj.y - S.boss.y
      R == proj.radius + S.boss.r
      hit == tryApplyHit(S, proj, now)
  IN  IF dx * dx + dy * dy <= R * R
      THEN IF hit.registered
           THEN IF splitEligible(proj) THEN splitBranch(hit.S, proj, pnow)
                ELSE IF pierceEligible(proj) THEN pierceBranch(hit.S, proj)
                ELSE IF forkEligible(proj)
                       THEN forkBranch(hit.S, proj, pnow, roll)
                ELSE IF proj.chainRemaining > 0
                       THEN [S |-> hit.S, proj |-> proj, res |-> "remove"]
                ELSE [S |-> hit.S, proj |-> proj, res |-> "remove"]
           ELSE [S |-> hit.S, proj |-> proj, res |-> "keep"]
      ELSE [S |-> S, proj |-> proj, res |-> "keep"]

(***************************************************************************)
(* Simulation: configuration and cast emission                             *)
(***************************************************************************)
\* readConfigFromDOM(): the configuration read from the form's values
readConfigFromDOM(form) ==
  [ arenaType |-> form.arenaType,
    avgHit |-> form.avgHit,
    projSpeedMod |-> form.projSpeedMod,
    projectileCount |-> form.projectileCount,
    castSpeed |-> form.castSpeed,
    castInterval |-> IF form.castSpeed > 0 THEN SECOND \div form.castSpeed
                                            ELSE Infinity,
    duration |-> form.duration,
    castShape |-> form.castShape,
    casterFacingDeg |-> form.casterFacingDeg,
    coneAngleDeg |-> 90,
    pierceCount |-> form.pierceCount,
    forkTimes |-> form.forkTimes,
    chainCount |-> form.chainCount,
    splitCount |-> form.splitCount,
    forkChance |-> clamp(form.forkChance, 0, 100),
    bossRadius |-> form.bossRadius ]

\* randRange(min, max) with Math.random() = r12 / 12
randRange(min, max, r12) == min + ((max - min) * r12) \div 12

\* Variant of emitCast that leaves nextCastId as it is
emitCastKeepsCounter(S, now, rnd) ==
  LET cfg == S.config
      count == cfg.projectileCount
      half == clamp(cfg.coneAngleDeg, 0, 360) \div 2
      facing == cfg.casterFacingDeg
      angle(i) == IF cfg.castShape = "circular"
                  THEN randRange(0, TWO_PI, rnd[i])
                  ELSE facing + randRange(-half, half, rnd[i])
      castId == S.nextCastId
      pc(i) == [castId |-> castId, x |-> S.caster.x, y |-> S.caster.y,
                angle |-> angle(i),
                speed |-> (BASE_PROJ_SPEED_UNITS *
                           (IF cfg.projSpeedMod = 0 THEN 1 ELSE cfg.projSpeedMod))
                          * scale,
                now |-> now,
                duration |-> cfg.duration * SECOND,
                pierceCount |-> cfg.pierceCount,
                forkTimes |-> cfg.forkTimes,
                chainCount |-> cfg.chainCount,
                splitCount |-> cfg.splitCount]
  IN  pushAll(S, [i \in 1..count |-> pc(i)], FALSE)

\* emitCast(now): rnd[i] is the Math.random() draw (in twelfths) of the i-th
\* angle; config.duration is in seconds
emitCast(S, now, rnd) ==
  LET cfg == S.config
      count == cfg.projectileCount
      half == clamp(cfg.coneAngleDeg, 0, 360) \div 2
      facing == cfg.casterFacingDeg
      angle(i) == IF cfg.castShape = "circular"
                  THEN randRange(0, TWO_PI, rnd[i])
                  ELSE facing + randRange(-half, half, rnd[i])
      castId == S.nextCastId
      pc(i) == [castId |-> castId, x |-> S.caster.x, y |-> S.caster.y,
                angle |-> angle(i),
                speed |-> (BASE_PROJ_SPEED_UNITS *
                           (IF cfg.projSpeedMod = 0 THEN 1 ELSE cfg.projSpeedMod))
                          * scale,
                now |-> now,
                duration |-> cfg.duration * SECOND,
                pierceCount |-> cfg.pierceCount,
                forkTimes |-> cfg.forkTimes,
                chainCount |-> cfg.chainCount,
                splitCount |-> cfg.splitCount]
  IN  pushAll([S EXCEPT !.nextCastId = @ + 1],
              [i \in 1..count |-> pc(i)], FALSE)

(***************************************************************************)
(* Simulation.step                                                         *)
(***************************************************************************)
\* Variant of emitLoop that emits a cast as soon as half a cast interval has
\* accumulated
emitLoopAtHalfInterval(S, now, rnd) ==
  IF 2 * S.castAccumulator >= S.config.castInterval
  THEN emitCast([S EXCEPT !.castAccumulator = @ - S.config.castInterval],
                now, rnd)
  ELSE S

\* Variant of emitLoop that emits one cast at most in a step
emitLoopOnce(S, now, rnd) ==
  IF S.castAccumulator >= S.config.castInterval
  THEN emitCast([S EXCEPT !.castAccumulator = @ - S.config.castInterval],
                now, rnd)
  ELSE S

\* the cast emission loop of step
RECURSIVE emitLoop(_, _, _)
emitLoop(S, now, rnd) ==
  IF S.castAccumulator >= S.config.castInterval
  THEN emitLoop(emitCast([S EXCEPT !.castAccumulator =
                                      @ - S.config.castInterval], now, rnd),
                now, rnd)
  ELSE S

\* history: the record of one call of handleProjectileEnemyCollision made
\* by step (the contact, the state before and after it)
hitEvent(S, proj, r, time, roll) ==
  [ id |-> proj.id, castId |-> proj.castId, time |-> time,
    before |-> proj, after |-> r.proj, res |-> r.res,
    children |-> SubSeq(r.S.projectiles, Len(S.projectiles) + 1,
                        Len(r.S.projectiles)),
    locksBefore |-> S.castTargetLocks, locksAfter |-> r.S.castTargetLocks,
    hitsBefore |-> S.hitsTotal, hitsAfter |-> r.S.hitsTotal,
    damageBefore |-> S.totalDamage, damageAfter |-> r.S.totalDamage,
    stampsBefore |-> S.hitTimestamps, stampsAfter |-> r.S.hitTimestamps,
    avgHit |-> S.config.avgHit, boss |-> S.boss,
    lastHitBefore |-> S.lastHitAt,
    forkChance |-> S.config.forkChance,
    \* the fork roll, kept where children were spawned
    roll |-> IF Len(r.S.projectiles) > Len(S.projectiles) THEN roll ELSE 0 ]

\* the substeps s, s+1, ..., steps-1 of one projectile (the inner for loop)
RECURSIVE subLoop(_, _, _, _, _, _)
subLoop(S, proj, s, steps, now, roll) ==
  IF s >= steps THEN [S |-> S, proj |-> proj, removed |-> FALSE]
  ELSE
    LET \* dx = proj.vx * subdt, dy = proj.vy * subdt
        dx == RDiv(Vx(proj) * fixedDt, SECOND * steps)
        dy == RDiv(Vy(proj) * fixedDt, SECOND * steps)
        R == proj.radius + S.boss.r
        \* terrain collision (reflect) of the moved projectile, then the
        \* next substep
        \* History: a reflection is counted in the projectile's bounces
        terrain(S1, moved) ==
          IF S1.config.arenaType = "tjunction"
          THEN \* swept test against the segments of the T-junction, over
               \* the whole substep that ends at the projectile
               LET tdx == RDiv(Vx(moved) * fixedDt, SECOND * steps)
                   tdy == RDiv(Vy(moved) * fixedDt, SECOND * steps)
                   p0x == moved.x - tdx
                   p0y == moved.y - tdy
                   \* History: the reflection is logged, `before` at the
                   \* start of the swept substep
                   logged(after) ==
                     subLoop([S1 EXCEPT !.log =
                                Append(@, [terrain |-> TRUE,
                                           before |-> [moved EXCEPT !.x = p0x,
                                                                    !.y = p0y],
                                           after |-> after])],
                             after, s + 1, steps, now, roll)
                   next(best) ==
                     IF best.t # null
                     THEN logged(reflect(
                                   [moved EXCEPT
                                      !.x = p0x + RDiv(tdx * best.t, TONE)
                                            + RDiv(best.nx * moved.radius * 1001,
                                                   Isqrt(best.nn) * TONE),
                                      !.y = p0y + RDiv(tdy * best.t, TONE)
                                            + RDiv(best.ny * moved.radius * 1001,
                                                   Isqrt(best.nn) * TONE),
                                      !.bounces = @ + 1],
                                   best.nx, best.ny, best.nn))
                     ELSE subLoop(S1, moved, s + 1, steps, now, roll)
               IN  next(bestHit(TJunctionArena(S1.canvas.width,
                                               S1.canvas.height, scale),
                                1, [t |-> null], p0x, p0y, tdx, tdy,
                                moved.radius))
          ELSE
          LET hit == IF S1.config.arenaType = "square"
                     THEN collideCircle(moved.x, moved.y, moved.radius)
                     ELSE collideCircleRound(moved.x, moved.y, moved.radius)
          IN  subLoop(S1,
                      IF hit.hit
                      THEN reflect([moved EXCEPT !.x = hit.x, !.y = hit.y,
                                                 !.bounces = @ + 1],
                                   hit.nx, hit.ny, hit.nn)
                      ELSE moved,
                      s + 1, steps, now, roll)
        \* after the call of handleProjectileEnemyCollision at atHit.
        \* History: the contact is logged; a registered hit is noted in
        \* lastHitAt, a pierce in the projectile's pierces
        handled(atHit, collisionTimeMs, enemyRes) ==
          LET logged == [enemyRes.S EXCEPT
                           !.log = Append(@, hitEvent(S, atHit, enemyRes,
                                                      collisionTimeMs, roll)),
                           !.lastHitAt =
                              IF enemyRes.S.hitsTotal > S.hitsTotal
                              THEN mapSet(@, atHit.castId, collisionTimeMs)
                              ELSE @]
              counted == IF enemyRes.proj.pierceRemaining < atHit.pierceRemaining
                         THEN [enemyRes.proj EXCEPT !.pierces = @ + 1]
                         ELSE enemyRes.proj
          IN  IF enemyRes.res = "remove"
              THEN [S |-> logged, proj |-> enemyRes.proj, removed |-> TRUE]
              \* proj.move(subdt * remainFrac)
              ELSE terrain(logged,
                           [counted EXCEPT
                              !.x = @ + (dx - (atHit.x - proj.x)),
                              !.y = @ + (dy - (atHit.y - proj.y))])
        \* CCD vs boss within the substep, tHit the fraction of the contact
        ccd(tHit) ==
          IF tHit # null
          THEN LET atHit == [proj EXCEPT !.x = @ + RDiv(dx * tHit, TONE),
                                         !.y = @ + RDiv(dy * tHit, TONE)]
                   collisionTimeMs ==
                     now + ((s * TONE + tHit) * fixedDt) \div (steps * TONE)
               IN  handled(atHit, collisionTimeMs,
                           handleProjectileEnemyCollision(
                              S, atHit, collisionTimeMs, now, roll))
          \* proj.move(subdt)
          ELSE terrain(S, [proj EXCEPT !.x = @ + dx, !.y = @ + dy])
    IN  ccd(sweptCircleHitT(proj.x, proj.y, dx, dy, S.boss.x, S.boss.y, R))

\* the i-th random draw of a step (a step visiting more projectiles than the
\* model draws for is cut off by Step's guard)
drawAt(draws, i) == IF i \in DOMAIN draws THEN draws[i] ELSE 0

\* the for-of loop over this.projectiles from index i on; projectiles pushed
\* during the loop are at the end of the array the loop is iterating
RECURSIVE projLoop(_, _, _, _, _)
projLoop(S, i, now, wd, rolls) ==
  IF i > Len(S.projectiles) THEN S
  ELSE
    LET proj == S.projectiles[i]
        thought == think(proj, drawAt(wd, i))
        \* steps = max(1, ceil(speed * dt / maxTerrainStepPx))
        steps == Max(1, CeilDiv(thought.speed * fixedDt, maxTerrainStepPx * SECOND))
        \* if (removed) continue; survivors.push(proj).  History: dead keeps
        \* the removed Projectile objects as the step left them
        next(r) ==
          projLoop(IF r.removed THEN [r.S EXCEPT !.dead = Append(@, r.proj)]
                   ELSE [r.S EXCEPT !.survivors = Append(@, r.proj)],
                   i + 1, now, wd, rolls)
    IN  IF isExpired(proj, now) THEN projLoop(S, i + 1, now, wd, rolls)
        ELSE next(subLoop(S, thought, 0, steps, now, drawAt(rolls, i)))

\* while (hitTimestamps.length && hitTimestamps[0] < cutoff) shift()
RECURSIVE dropOld(_, _)
dropOld(stamps, cutoff) ==
  IF Len(stamps) > 0 /\ stamps[1] < cutoff THEN dropOld(Tail(stamps), cutoff)
  ELSE stamps

\* step(dt) with dt = fixedDt.  now is performance.now(); rnd, wd and rolls
\* are the random draws of emitCast, of Wander.step (per visited projectile)
\* and of the fork chance (per visited projectile)
step(S, now, rnd, wd, rolls) ==
  LET emitted == IF S.running
                 THEN emitLoop([S EXCEPT !.castAccumulator = @ + fixedDt],
                               now, rnd)
                 ELSE S
      \* this.projectiles = survivors, and the cleanup of hitTimestamps
      finish(looped) ==
        [looped EXCEPT !.visited = Len(looped.projectiles),
                       !.projectiles = looped.survivors,
                       !.survivors = <<>>,
                       !.hitTimestamps = dropOld(@, now - windowMs)]
  IN  finish(projLoop([emitted EXCEPT !.survivors = <<>>, !.log = <<>>,
                                      !.dead = <<>>],
                      1, now, wd, rolls))

(***************************************************************************)
(* Bounds and input sets of the model                                      *)
(***************************************************************************)
\* calls of step in one behaviour
MaxTicks == 3
\* projectiles in this.projectiles during one step (live, emitted, spawned)
MaxProj == 3
\* heading changes by Wander.step in one behaviour
MaxTurns == 1
\* resets and configuration inputs in one behaviour
MaxEdits == 1

\* form values (URL parameters or edits); speeds, counts as the form gives
BaseForm ==
  [ arenaType |-> "square", avgHit |-> 100, projSpeedMod |-> 3,
    projectileCount |-> 1, castSpeed |-> 120, duration |-> 2,
    castShape |-> "circular", casterFacingDeg |-> 0,
    pierceCount |-> 0, forkTimes |-> 0, chainCount |-> 0, splitCount |-> 0,
    forkChance |-> 0, bossRadius |-> BOSS_RADIUS_UNITS ]

Forms ==
  { BaseForm,
    [BaseForm EXCEPT !.splitCount = 2, !.pierceCount = 3, !.forkTimes = 1],
    [BaseForm EXCEPT !.pierceCount = 1, !.forkTimes = 1, !.forkChance = 50],
    [BaseForm EXCEPT !.pierceCount = 1, !.chainCount = 1, !.avgHit = 50,
                     !.projectileCount = 2] }

\* Math.random() draws of emitCast, in twelfths (circular: 0 and 90 degrees)
EmitDraws == {0, 3}
\* heading changes of one Wander.step, degrees
WanderDeltas == {0, 90}
\* Math.random() * 100 of the fork chance
Rolls == {0, 99}
\* advance of performance.now() between two calls of step
ClockAdvances == {fixedDt, PER_CAST_TARGET_COOLDOWN}

\* centre of the canvas
Centre == [x |-> CANVAS \div 2, y |-> CANVAS \div 2]
\* positions of the boss (URL parameters bx, by): on the caster, 6 px right
\* of it, 6 px below it
BossPositions ==
  { Centre, [Centre EXCEPT !.x = @ + 12], [Centre EXCEPT !.y = @ + 12] }

(***************************************************************************)
(* State                                                                   *)
(***************************************************************************)
VARIABLES
  others,           \* the Simulations made before window.__sim, still looping
  accum,            \* this.accum
  lastTime,         \* this.lastTime
  canvas,           \* this.width, this.height
  projectiles,      \* this.projectiles
  running,          \* this.running
  castAccumulator,  \* this.castAccumulator
  config,           \* this.config
  caster,           \* this.caster (x, y, r)
  boss,             \* this.boss (x, y, r)
  hitsTotal,        \* this.hitsTotal
  totalDamage,      \* this.totalDamage
  hitTimestamps,    \* this.hitTimestamps
  castTargetLocks,  \* this.castTargetLocks
  nextCastId,       \* the module-global nextCastId
  nextProjId,       \* next fresh Projectile.id
  clock,            \* the last performance.now() read by step
  ticks,            \* history: number of calls of step
  log,              \* history: the target contacts of the last step
  lastHitAt,        \* history: cast id -> time of its last registered hit
  turns,            \* history: number of heading changes drawn by Wander
  edits,            \* history: number of resets and configuration inputs
  avgHitConst       \* history: avgHit unchanged since the totals were zeroed

vars == << others, accum, lastTime, canvas, projectiles, running, castAccumulator, config, caster,
           boss,
           hitsTotal, totalDamage, hitTimestamps, castTargetLocks, nextCastId,
           nextProjId, clock, ticks, log, lastHitAt, turns, edits,
           avgHitConst >>

\* boss.r = clamp(config.bossRadius || BOSS_RADIUS_UNITS, 0.1, 999) * scale
bossR(cfg) ==
  clamp(IF cfg.bossRadius = 0 THEN BOSS_RADIUS_UNITS ELSE cfg.bossRadius, 1, 999)
    * scale

\* Simulation.constructor on a canvas of size cv, with the configuration (one
\* of forms) and the positions (caster at one of casterPositions, boss at
\* one of bossPositions) of the URL parameters applied
initAt(cv, forms, casterPositions, bossPositions) ==
  /\ others = <<>>
  /\ accum = 0
  /\ lastTime = 0
  /\ canvas = cv
  /\ projectiles = <<>>
  /\ running = FALSE
  /\ castAccumulator = 0
  /\ \E form \in forms : config = readConfigFromDOM(form)
  /\ \E pos \in casterPositions :
        caster = [x |-> pos.x, y |-> pos.y, r |-> 3 * scale]
  /\ \E pos \in bossPositions :
        boss = [x |-> pos.x, y |-> pos.y, r |-> bossR(config)]
  /\ hitsTotal = 0
  /\ totalDamage = 0
  /\ hitTimestamps = <<>>
  /\ castTargetLocks = <<>>
  /\ nextCastId = 1
  /\ nextProjId = 1
  /\ clock = 0
  /\ ticks = 0
  /\ log = <<>>
  /\ lastHitAt = <<>>
  /\ turns = 0
  /\ edits = 0
  /\ avgHitConst = TRUE

\* the constructor on the canvas of CANVAS x CANVAS, caster at casterPos
initOf(forms, casterPos, bossPositions) ==
  initAt([width |-> CANVAS, height |-> CANVAS], forms, {casterPos},
         bossPositions)

Init == initOf(Forms, Centre, BossPositions)

\* the Simulation's fields as the record S of the operators above
Sim ==
  [ canvas |-> canvas, projectiles |-> projectiles, running |-> running,
    castAccumulator |-> castAccumulator, config |-> config,
    caster |-> caster, boss |-> boss, hitsTotal |-> hitsTotal,
    totalDamage |-> totalDamage, hitTimestamps |-> hitTimestamps,
    castTargetLocks |-> castTargetLocks, nextCastId |-> nextCastId,
    nextProjId |-> nextProjId, survivors |-> <<>>, log |-> <<>>,
    dead |-> <<>>,
    lastHitAt |-> lastHitAt, visited |-> 0 ]

(***************************************************************************)
(* Actions                                                                 *)
(***************************************************************************)
\* The Projectile objects that a step of one Simulation has changed, as the
\* other Simulations holding the same objects see them: `list` with every
\* object that the step (result S) visited replaced by what the step left
syncObjects(list, S) ==
  LET objs == {S.projectiles[j] : j \in DOMAIN S.projectiles}
                \cup {S.dead[j] : j \in DOMAIN S.dead}
  IN  [i \in DOMAIN list |->
         IF \E q \in objs : q.id = list[i].id
         THEN CHOOSE q \in objs : q.id = list[i].id
         ELSE list[i]]

\* the older Simulations after a step of another one
sharedWith(sims, S) ==
  [k \in DOMAIN sims |->
     [sims[k] EXCEPT !.projectiles = syncObjects(@, S)]]

\* the draws a step can need: emission angles (in twelfths of a turn, from
\* `draws`) when a cast is due, a fork roll when the fork chance is neither
\* 0 nor 100
emitDrawsOf(draws) ==
  IF running /\ castAccumulator + fixedDt >= config.castInterval
  THEN [1..config.projectileCount -> draws]
  ELSE {[i \in 1..config.projectileCount |-> 0]}

EmitDrawsNow == emitDrawsOf(EmitDraws)

RollsNow == IF config.forkChance \in {0, 100} THEN {0} ELSE Rolls

\* the Wander draws of a step: one heading change per visited projectile,
\* at most maxTurns of them non-zero in a behaviour
wanderDrawsOf(maxProj, maxTurns) ==
  { wd \in [1..maxProj -> WanderDeltas] :
      turns + Cardinality({i \in 1..maxProj : wd[i] # 0}) <= maxTurns }

WanderDrawsNow == wanderDrawsOf(MaxProj, MaxTurns)

\* loop calls step(fixedDt): at most maxTicks calls in a behaviour, each
\* visiting at most maxProj projectiles, the wall clock advancing by one of
\* advs, the emission angles drawn from draws, the fork roll from rolls
stepOf(maxTicks, maxProj, maxTurns, advs, draws, rolls) ==
  /\ ticks < maxTicks
  /\ \E adv \in advs, roll \in rolls, rnd \in emitDrawsOf(draws),
        wd \in wanderDrawsOf(maxProj, maxTurns) :
       LET now == clock + adv
       IN \E S \in {step(Sim, now, rnd, wd, [i \in 1..maxProj |-> roll])} :
           /\ S.visited <= maxProj
           /\ \A i \in 1..maxProj : i > S.visited => wd[i] = 0
           /\ projectiles' = S.projectiles
           /\ castAccumulator' = S.castAccumulator
           /\ hitsTotal' = S.hitsTotal
           /\ totalDamage' = S.totalDamage
           /\ hitTimestamps' = S.hitTimestamps
           /\ castTargetLocks' = S.castTargetLocks
           /\ nextCastId' = S.nextCastId
           /\ nextProjId' = S.nextProjId
           /\ log' = S.log
           /\ lastHitAt' = S.lastHitAt
           /\ clock' = now
           /\ turns' = turns + Cardinality({i \in 1..maxProj : wd[i] # 0})
           /\ others' = sharedWith(others, S)
  /\ ticks' = ticks + 1
  /\ UNCHANGED << accum, lastTime, canvas, running, config, caster, boss,
                  edits, avgHitConst >>

Step == stepOf(MaxTicks, MaxProj, MaxTurns, ClockAdvances, EmitDraws, RollsNow)

\* click on startBtn
Start ==
  /\ running' = TRUE
  /\ others' = [k \in DOMAIN others |-> [others[k] EXCEPT !.running = TRUE]]
  /\ log' = <<>>
  /\ UNCHANGED << accum, lastTime, canvas, projectiles, castAccumulator, config, caster, boss,
                  hitsTotal, totalDamage, hitTimestamps, castTargetLocks,
                  nextCastId, nextProjId, clock, ticks, lastHitAt, turns,
                  edits, avgHitConst >>

\* click on stopBtn
Stop ==
  /\ running' = FALSE
  /\ others' = [k \in DOMAIN others |-> [others[k] EXCEPT !.running = FALSE]]
  /\ log' = <<>>
  /\ UNCHANGED << accum, lastTime, canvas, projectiles, castAccumulator, config, caster, boss,
                  hitsTotal, totalDamage, hitTimestamps, castTargetLocks,
                  nextCastId, nextProjId, clock, ticks, lastHitAt, turns,
                  edits, avgHitConst >>

\* click on resetBtn: reset()
Reset ==
  /\ edits < MaxEdits
  /\ projectiles' = <<>>
  /\ hitsTotal' = 0
  /\ totalDamage' = 0
  /\ hitTimestamps' = <<>>
  /\ castTargetLocks' = <<>>
  \* every Simulation has its listener on resetBtn
  /\ nextCastId' = nextCastId + 1 + Len(others)
  /\ others' = [k \in DOMAIN others |->
                  [others[k] EXCEPT !.projectiles = <<>>, !.hitsTotal = 0,
                                    !.totalDamage = 0, !.hitTimestamps = <<>>,
                                    !.castTargetLocks = <<>>]]
  /\ log' = <<>>
  /\ edits' = edits + 1
  /\ avgHitConst' = TRUE
  /\ UNCHANGED << accum, lastTime, canvas, running, castAccumulator, config, caster, boss,
                  nextProjId,
                  clock, ticks, lastHitAt, turns >>

\* input event of a form field: the configuration is read again and the
\* enemy radius applied
configInputOf(forms) ==
  /\ edits < MaxEdits
  /\ \E form \in forms :
       /\ readConfigFromDOM(form) # config
       /\ config' = readConfigFromDOM(form)
       /\ boss' = [boss EXCEPT !.r = clamp(config'.bossRadius, 1, 999) * scale]
       /\ avgHitConst' = (avgHitConst /\
                          (config'.avgHit = config.avgHit \/ hitsTotal = 0))
       /\ others' = [k \in DOMAIN others |->
                       [others[k] EXCEPT
                          !.config = readConfigFromDOM(form),
                          !.boss.r = clamp(config'.bossRadius, 1, 999) * scale]]
  /\ log' = <<>>
  /\ edits' = edits + 1
  /\ UNCHANGED << accum, lastTime, canvas, projectiles, running, castAccumulator, caster,
                  hitsTotal,
                  totalDamage, hitTimestamps, castTargetLocks, nextCastId,
                  nextProjId, clock, ticks, lastHitAt, turns >>

ConfigInput == configInputOf(Forms)

Next == Step \/ Start \/ Stop \/ Reset \/ ConfigInput

Spec == Init /\ [][Next]_vars


(***************************************************************************)
(* Properties of the target contacts.  They are stated over log, the       *)
(* contacts of the last step in the order in which step made them.         *)
(***************************************************************************)
\* the circles of the projectile and of the target overlap at the contact:
\* the handler attempts a hit
attempt(e) ==
  LET dx == e.before.x - e.boss.x
      dy == e.before.y - e.boss.y
      R == e.before.radius + e.boss.r
  IN  dx * dx + dy * dy <= R * R

\* the attempt was counted
registered(e) == e.hitsAfter > e.hitsBefore

\* the ledger entry of the contact's cast before the contact (0 without one)
ownEntry(e) ==
  IF <<e.castId, targetId>> \in DOMAIN e.locksBefore
  THEN e.locksBefore[<<e.castId, targetId>>] ELSE 0

\* the effects by which the outcomes of a contact are told apart
splitFired(e) ==
  /\ Len(e.children) > 0
  /\ \A i \in DOMAIN e.children :
        e.children[i].forkRemaining = e.before.forkRemaining
  /\ e.res = "remove"

pierceFired(e) == e.after.pierceRemaining = e.before.pierceRemaining - 1

forkFired(e) ==
  /\ Len(e.children) > 0
  /\ \A i \in DOMAIN e.children :
        e.children[i].forkRemaining = e.before.forkRemaining - 1
  /\ e.res = "remove"

sameBudgets(p, q) ==
  /\ p.pierceRemaining = q.pierceRemaining
  /\ p.forkRemaining = q.forkRemaining
  /\ p.chainRemaining = q.chainRemaining
  /\ p.splitCount = q.splitCount

chainAbsorbed(e) ==
  /\ e.before.chainRemaining > 0
  /\ e.children = <<>> /\ e.res = "remove" /\ sameBudgets(e.after, e.before)

plainAbsorbed(e) ==
  /\ e.before.chainRemaining = 0
  /\ e.children = <<>> /\ e.res = "remove" /\ sameBudgets(e.after, e.before)

outcomes(e) ==
  {o \in {"split", "pierce", "fork", "chain", "absorb"} :
     \/ o = "split" /\ splitFired(e)
     \/ o = "pierce" /\ pierceFired(e)
     \/ o = "fork" /\ forkFired(e)
     \/ o = "chain" /\ chainAbsorbed(e)
     \/ o = "absorb" /\ plainAbsorbed(e)}

\* the identifiers of the live projectiles
liveIds == {projectiles[i].id : i \in DOMAIN projectiles}

\* the time of the cast's last registered hit before the contact, or null
lastRegistered(e) ==
  IF e.castId \in DOMAIN e.lastHitBefore THEN e.lastHitBefore[e.castId]
  ELSE null

\* C1: for every cast, an attempt made less than 0.66 s after the cast's
\* last registered hit does not increase hitsTotal, and an attempt made
\* 0.66 s or more after it (or the cast's first attempt) is registered; so
\* two registered hits of a cast are never less than 0.66 s apart.
C1_CooldownBetweenRegisteredHits ==
  \A i \in DOMAIN log :
     LET e == log[i]
         last == lastRegistered(e)
     IN  attempt(e) =>
           /\ (last # null /\ e.time - last < PER_CAST_TARGET_COOLDOWN)
                 => e.hitsAfter = e.hitsBefore
           /\ (last = null \/ e.time - last >= PER_CAST_TARGET_COOLDOWN)
                 => e.hitsAfter = e.hitsBefore + 1

\* a step in which one projectile of a cast registers a hit 0.66 s or more
\* after the cast's last one and a later attempt of the cast is refused
C1_Witness ==
  \E i, j \in DOMAIN log :
     /\ i < j /\ log[i].castId = log[j].castId
     /\ attempt(log[i]) /\ lastRegistered(log[i]) # null
     /\ log[i].time - lastRegistered(log[i]) >= PER_CAST_TARGET_COOLDOWN
     /\ registered(log[i])
     /\ attempt(log[j]) /\ ~registered(log[j])
     /\ log[j].time - lastRegistered(log[j]) < PER_CAST_TARGET_COOLDOWN

\* C2: the cooldown is per (cast, target): a registered hit writes the entry
\* of its own cast and no other, a refused attempt writes none, and an
\* attempt is registered exactly when the time has reached the entry of its
\* own cast, whatever the entries of the other casts are.
C2_CooldownPerCastAndTarget ==
  \A i \in DOMAIN log :
     LET e == log[i]
         own == <<e.castId, targetId>>
     IN  attempt(e) =>
           /\ registered(e) <=> e.time >= ownEntry(e)
           /\ DOMAIN e.locksAfter =
                 DOMAIN e.locksBefore \cup (IF registered(e) THEN {own} ELSE {})
           /\ \A k \in DOMAIN e.locksBefore :
                 k # own => e.locksAfter[k] = e.locksBefore[k]
           /\ ~registered(e) => e.locksAfter = e.locksBefore

\* a projectile registers a hit while another cast is on cooldown, and in the
\* same step a projectile is refused on the entry written by another
\* projectile of its cast
C2_Witness ==
  /\ \E i \in DOMAIN log :
        /\ registered(log[i])
        /\ \E k \in DOMAIN log[i].locksBefore :
              k[1] # log[i].castId /\ log[i].locksBefore[k] > log[i].time
  /\ \E i, j \in DOMAIN log :
        /\ i < j /\ log[i].castId = log[j].castId /\ log[i].id # log[j].id
        /\ registered(log[i])
        /\ attempt(log[j]) /\ ~registered(log[j])

\* C3: every registered hit applies exactly one of split, pierce, fork,
\* chain-absorb and plain absorb; on a projectile with split = 2, pierce = 3
\* and fork = 1 it is split: pierceRemaining stays 3 and no child with a
\* spent fork is created.
C3_ExactlyOneOutcome ==
  \A i \in DOMAIN log :
     LET e == log[i]
     IN  registered(e) =>
           /\ Cardinality(outcomes(e)) = 1
           /\ (e.before.splitCount = 2 /\ ~e.before.hasSplit
               /\ e.before.pierceRemaining = 3 /\ e.before.forkRemaining = 1)
                 => /\ outcomes(e) = {"split"}
                    /\ e.after.pierceRemaining = 3
                    /\ Len(e.children) = 2
                    /\ \A c \in DOMAIN e.children :
                          /\ e.children[c].pierceRemaining = 3
                          /\ e.children[c].forkRemaining = 1

\* a registered hit on a projectile with split = 2, pierce = 3, fork = 1
C3_Witness ==
  \E i \in DOMAIN log :
     /\ registered(log[i])
     /\ log[i].before.splitCount = 2 /\ ~log[i].before.hasSplit
     /\ log[i].before.pierceRemaining = 3 /\ log[i].before.forkRemaining = 1
     /\ Len(log[i].children) = 2

\* C4: the branch of a registered hit is chosen in the order split, pierce,
\* fork, chain: with split = 0, pierce = 1, fork = 1 the hit fires pierce
\* (pierceRemaining becomes 0, no child, the projectile is kept), and the
\* next registered hit of that projectile, 0.66 s or more later, fires fork.
C4_BranchPriority ==
  \A i \in DOMAIN log :
     LET e == log[i]
         b == e.before
         eligible == ~b.hasSplit /\ b.splitCount > 0
     IN  registered(e) =>
           /\ eligible => outcomes(e) = {"split"}
           /\ (~eligible /\ b.pierceRemaining > 0) => outcomes(e) = {"pierce"}
           /\ (~eligible /\ b.pierceRemaining = 0 /\ b.forkRemaining > 0)
                 => outcomes(e) = {"fork"}
           /\ (~eligible /\ b.pierceRemaining = 0 /\ b.forkRemaining = 0)
                 => outcomes(e) = IF b.chainRemaining > 0 THEN {"chain"}
                                                          ELSE {"absorb"}
           /\ (b.splitCount = 0 /\ b.pierceRemaining = 1 /\ b.forkRemaining = 1)
                 => /\ e.after.pierceRemaining = 0
                    /\ e.children = <<>>
                    /\ e.res = "keep"
           /\ (b.splitCount = 0 /\ b.pierces = 1 /\ b.pierceRemaining = 0
               /\ b.forkRemaining = 1)
                 => /\ forkFired(e)
                    /\ e.time - lastRegistered(e) >= PER_CAST_TARGET_COOLDOWN

\* the second registered hit of a projectile emitted with pierce = 1 and
\* fork = 1: its first one fired pierce, this one fires fork
C4_Witness ==
  \E i \in DOMAIN log :
     /\ registered(log[i])
     /\ log[i].before.pierces = 1 /\ log[i].before.pierceRemaining = 0
     /\ log[i].before.forkRemaining = 1
     /\ forkFired(log[i])

\* C5: a contact made while the cooldown of the cast is active changes
\* nothing: hitsTotal, totalDamage, the hit timestamps and the ledger are
\* unchanged, so are the budgets and the heading of the projectile, no child
\* is spawned and the projectile stays live.
C5_BlockedContactChangesNothing ==
  \A i \in DOMAIN log :
     LET e == log[i]
     IN  (attempt(e) /\ e.time < ownEntry(e)) =>
           /\ e.hitsAfter = e.hitsBefore
           /\ e.damageAfter = e.damageBefore
           /\ e.stampsAfter = e.stampsBefore
           /\ e.locksAfter = e.locksBefore
           /\ sameBudgets(e.after, e.before)
           /\ e.after.hasSplit = e.before.hasSplit
           /\ e.after.angle = e.before.angle
           /\ e.after.speed = e.before.speed
           /\ e.children = <<>>
           /\ e.res = "keep"
           /\ e.id \in liveIds

\* a contact of a projectile with budgets left, made during the cooldown
C5_Witness ==
  \E i \in DOMAIN log :
     /\ attempt(log[i]) /\ log[i].time < ownEntry(log[i])
     /\ log[i].before.pierceRemaining > 0
     /\ log[i].id \in liveIds

\* C6: a registered hit adds exactly 1 to hitsTotal and exactly avgHit to
\* totalDamage, records its time and sets the next-allowed time of its cast
\* to the hit time plus 0.66 s, whichever branch fires; so while avgHit has
\* not changed between hits, totalDamage = hitsTotal * avgHit.
C6_HitAccounting ==
  /\ \A i \in DOMAIN log :
        LET e == log[i]
        IN  registered(e) =>
              /\ e.hitsAfter = e.hitsBefore + 1
              /\ e.damageAfter = e.damageBefore + e.avgHit
              /\ e.stampsAfter = Append(e.stampsBefore, e.time)
              /\ <<e.castId, targetId>> \in DOMAIN e.locksAfter
              /\ e.locksAfter[<<e.castId, targetId>>] =
                    e.time + PER_CAST_TARGET_COOLDOWN
  /\ avgHitConst => totalDamage = hitsTotal * config.avgHit

\* a step with two registered hits that fire different branches, after
\* which three hits or more are counted
C6_Witness ==
  /\ avgHitConst /\ hitsTotal >= 3
  /\ \E i, j \in DOMAIN log :
        /\ registered(log[i]) /\ registered(log[j])
        /\ outcomes(log[i]) # outcomes(log[j])

\* the split branch is taken at the contact
splitTaken(e) ==
  registered(e) /\ ~e.before.hasSplit /\ e.before.splitCount > 0

\* the pierce branch is taken at the contact
pierceTaken(e) ==
  registered(e) /\ ~splitTaken(e) /\ e.before.pierceRemaining > 0

\* C7: split on a projectile with splitCount = n > 0 creates exactly n
\* children at the hit position, child i heading 2*pi*i/n (i = 0..n-1), each
\* with the parent's remaining pierce, fork and chain counts and splitCount
\* 0, and removes the original from the live projectiles.
C7_SplitChildren ==
  \A k \in DOMAIN log :
     LET e == log[k]
         n == e.before.splitCount
     IN  splitTaken(e) =>
           /\ Len(e.children) = n
           /\ \A i \in 0..(n - 1) :
                 LET c == e.children[i + 1]
                 IN  /\ c.x = e.before.x /\ c.y = e.before.y
                     /\ c.angle * n = TWO_PI * i
                     /\ c.pierceRemaining = e.before.pierceRemaining
                     /\ c.forkRemaining = e.before.forkRemaining
                     /\ c.chainRemaining = e.before.chainRemaining
                     /\ c.splitCount = 0
                     /\ c.castId = e.castId
           /\ e.res = "remove"
           /\ e.id \notin liveIds

\* a split whose children are live after the step
C7_Witness ==
  \E k \in DOMAIN log :
     /\ splitTaken(log[k])
     /\ Len(log[k].children) = 2
     /\ \A i \in DOMAIN log[k].children : log[k].children[i].id \in liveIds

\* C8: every child created by split or by fork has splitCount 0, and no
\* descendant of a projectile that has split splits again, whatever the
\* configuration is by then.
C8_SplitOnce ==
  /\ \A k \in DOMAIN log :
        /\ \A i \in DOMAIN log[k].children : log[k].children[i].splitCount = 0
        /\ log[k].before.splitAncestor => ~splitTaken(log[k])
        /\ log[k].before.splitAncestor => "split" \notin outcomes(log[k])
  /\ \A i \in DOMAIN projectiles :
        projectiles[i].splitAncestor => projectiles[i].splitCount = 0

\* a registered hit of a child of a split, under a configuration that asks
\* for splits
C8_Witness ==
  \E k \in DOMAIN log :
     /\ registered(log[k])
     /\ log[k].before.splitAncestor
     /\ config.splitCount > 0

\* C9: pierce takes exactly 1 from pierceRemaining and leaves the projectile
\* live with the same heading, speed, cast id, forkRemaining, chainRemaining
\* and splitCount; no child is spawned.
C9_PierceFrame ==
  \A k \in DOMAIN log :
     LET e == log[k]
     IN  pierceTaken(e) =>
           /\ e.after.pierceRemaining = e.before.pierceRemaining - 1
           /\ e.after.angle = e.before.angle
           /\ e.after.speed = e.before.speed
           /\ e.after.castId = e.before.castId
           /\ e.after.forkRemaining = e.before.forkRemaining
           /\ e.after.chainRemaining = e.before.chainRemaining
           /\ e.after.splitCount = e.before.splitCount
           /\ e.children = <<>>
           /\ e.res = "keep"
           /\ e.id \in liveIds

\* a pierce of a projectile that has a fork left
C9_Witness ==
  \E k \in DOMAIN log :
     /\ pierceTaken(log[k])
     /\ log[k].before.forkRemaining > 0
     /\ log[k].id \in liveIds

\* C10: right after pierce the projectile is farther from the centre of the
\* target than targetRadius + projectileRadius, for every direction of
\* contact.
C10_PierceEndsOutsideTarget ==
  \A k \in DOMAIN log :
     LET e == log[k]
         dx == e.after.x - e.boss.x
         dy == e.after.y - e.boss.y
         R == e.boss.r + e.after.radius
     IN  pierceTaken(e) => dx * dx + dy * dy > R * R


-----------------------------------------------------------------------------
\* Forks: configurations with fork counts and every fork chance, up to four
\* projectiles visited in a step, the fork roll drawn at every step

MaxForkTicks == 3
MaxForkProj == 4

ForkForms ==
  { [BaseForm EXCEPT !.forkTimes = 1],
    [BaseForm EXCEPT !.forkTimes = 2, !.forkChance = 50, !.chainCount = 1],
    [BaseForm EXCEPT !.forkTimes = 1, !.forkChance = 100] }

\* emission headings 0, 90 and 270 degrees
ForkEmitDraws == {0, 3, 9}

InitFork == initOf(ForkForms, Centre, {Centre, [x |-> Centre.x + 12, y |-> Centre.y]})

StepFork ==
  stepOf(MaxForkTicks, MaxForkProj, 0, ClockAdvances, ForkEmitDraws, Rolls)

NextFork == StepFork \/ Start \/ Stop

SpecFork == InitFork /\ [][NextFork]_vars

\* the fork branch is taken at the contact
forkTaken(e) ==
  registered(e) /\ ~splitTaken(e) /\ ~pierceTaken(e) /\ e.before.forkRemaining > 0

\* a heading in [0, 360)
norm(a) == a % TWO_PI

\* C11: a fork removes the original and creates exactly two children at the
\* hit position heading base + 60 and base - 60 degrees, plus a third heading
\* base exactly when the roll is below forkChance (never at forkChance 0,
\* always at forkChance 100); every child has the parent's forkRemaining less
\* one and the parent's pierce and chain counts.
C11_ForkChildren ==
  \A k \in DOMAIN log :
    LET e == log[k]
        base == e.before.angle
        n == Len(e.children)
    IN  forkTaken(e) =>
          /\ e.res = "remove"
          /\ e.id \notin liveIds
          /\ n = (IF e.roll < e.forkChance THEN 3 ELSE 2)
          /\ e.forkChance = 0 => n = 2
          /\ e.forkChance = 100 => n = 3
          /\ norm(e.children[1].angle) = norm(base + 60)
          /\ norm(e.children[2].angle) = norm(base - 60)
          /\ n = 3 => norm(e.children[3].angle) = norm(base)
          /\ \A i \in 1..n :
                /\ e.children[i].x = e.before.x
                /\ e.children[i].y = e.before.y
                /\ e.children[i].forkRemaining = e.before.forkRemaining - 1
                /\ e.children[i].pierceRemaining = e.before.pierceRemaining
                /\ e.children[i].chainRemaining = e.before.chainRemaining

\* a projectile with a chain count has forked into three children at fork
\* chance 50
C11_Witness ==
  \E k \in DOMAIN log :
    /\ forkTaken(log[k]) /\ Len(log[k].children) = 3
    /\ log[k].forkChance = 50 /\ log[k].before.chainRemaining = 1
    /\ log[k].children[3].id \in liveIds

-----------------------------------------------------------------------------
\* no branch is eligible at the registered contact
absorbTaken(e) ==
  registered(e) /\ ~splitTaken(e) /\ ~pierceTaken(e) /\ ~forkTaken(e)

\* C12: a registered hit of a projectile with split, pierce and fork all
\* ineligible removes the projectile and spawns no children, whether or not
\* its chainRemaining is positive; the hit is counted in hitsTotal and
\* totalDamage.
C12_AbsorbedOnHit ==
  \A k \in DOMAIN log :
    LET e == log[k]
    IN  absorbTaken(e) =>
          /\ e.res = "remove"
          /\ e.id \notin liveIds
          /\ e.children = <<>>
          /\ Len(projectiles) < nextProjId - 1
          /\ e.hitsAfter = e.hitsBefore + 1
          /\ e.damageAfter = e.damageBefore + e.avgHit
          /\ hitsTotal >= e.hitsAfter /\ totalDamage >= e.damageAfter

\* one step has absorbed a projectile with a chain count and one without
C12_Witness ==
  \E k, m \in DOMAIN log :
    /\ absorbTaken(log[k]) /\ log[k].before.chainRemaining > 0
    /\ absorbTaken(log[m]) /\ log[m].before.chainRemaining = 0

-----------------------------------------------------------------------------
\* Expiry: durations of 0 s, 1 s and -1 (unlimited), the wall clock advancing
\* by a tick or by half a second, the boss on the caster or far from it

MaxExpiryTicks == 5
MaxExpiryProj == 2

ExpiryForms ==
  { [BaseForm EXCEPT !.duration = 0],
    [BaseForm EXCEPT !.duration = 1],
    [BaseForm EXCEPT !.duration = -1],
    [BaseForm EXCEPT !.duration = 1, !.splitCount = 1] }

ExpiryAdvances == {fixedDt, SECOND \div 2}

InitExpiry ==
  initOf(ExpiryForms, Centre, {Centre, [x |-> Centre.x + 200, y |-> Centre.y]})

StepExpiry ==
  stepOf(MaxExpiryTicks, MaxExpiryProj, 0, ExpiryAdvances, EmitDraws, RollsNow)

NextExpiry == StepExpiry \/ Start \/ Stop

SpecExpiry == InitExpiry /\ [][NextExpiry]_vars

\* the step has removed the projectile at a contact
removedAtContact(id, events) ==
  \E k \in DOMAIN events : events[k].id = id /\ events[k].res = "remove"

\* C13: a tick drops every live projectile with duration D >= 0 whose age
\* (wall clock at the tick less spawn time) is strictly above D, before it
\* moves or touches the target; a projectile whose age is at most D, or whose
\* duration is negative, leaves the live projectiles only by a contact that
\* removes it; a projectile created in the tick (age 0) is not dropped.
C13_ExpiryStrictlyPastDuration ==
  [][ ticks' = ticks + 1 =>
        /\ \A i \in DOMAIN projectiles :
              LET p == projectiles[i]
                  a == clock' - p.spawnTime
              IN  /\ (p.duration >= 0 /\ a > p.duration) =>
                        /\ p.id \notin {projectiles'[j].id : j \in DOMAIN projectiles'}
                        /\ \A k \in DOMAIN log' : log'[k].id # p.id
                  /\ (p.duration < 0 \/ a <= p.duration) =>
                        \/ p.id \in {projectiles'[j].id : j \in DOMAIN projectiles'}
                        \/ removedAtContact(p.id, log')
        /\ \A id \in nextProjId..(nextProjId' - 1) :
              \/ id \in {projectiles'[j].id : j \in DOMAIN projectiles'}
              \/ removedAtContact(id, log')
    ]_vars

\* the one projectile emitted, of duration 1 s, has left the live projectiles
\* without a hit, 1.5 s after the first tick of the run
C13_Witness ==
  /\ nextProjId = 2 /\ hitsTotal = 0 /\ projectiles = <<>>
  /\ config.duration = 1 /\ ticks = 4
  /\ clock = 3 * (SECOND \div 2) + fixedDt

-----------------------------------------------------------------------------
\* C14: with non-negative integer counts in the configuration, every live
\* projectile has pierceRemaining, forkRemaining, chainRemaining and
\* splitCount at least 0.
C14_CountsNeverNegative ==
  \A i \in DOMAIN projectiles :
    /\ projectiles[i].pierceRemaining >= 0
    /\ projectiles[i].forkRemaining >= 0
    /\ projectiles[i].chainRemaining >= 0
    /\ projectiles[i].splitCount >= 0

\* a projectile that had spent its last pierce has forked, and a live child
\* of the fork has neither a pierce nor a fork left
C14_Witness ==
  \E k \in DOMAIN log :
    /\ forkTaken(log[k]) /\ log[k].before.pierces >= 1
    /\ \E c \in DOMAIN log[k].children :
          /\ log[k].children[c].id \in liveIds
          /\ log[k].children[c].pierceRemaining = 0
          /\ log[k].children[c].forkRemaining = 0

-----------------------------------------------------------------------------
\* Cast emission: cast speeds of 0, -60, 60, 120 and 300 casts per second
\* (no cast, one cast every second tick, one per tick, two or three per
\* tick), one or two projectiles per cast, start, stop and reset

MaxCastTicks == 4
MaxCastProj == 5

CastForms ==
  { [BaseForm EXCEPT !.castSpeed = 0],
    [BaseForm EXCEPT !.castSpeed = -60],
    [BaseForm EXCEPT !.castSpeed = 60, !.splitCount = 2],
    [BaseForm EXCEPT !.projectileCount = 2, !.duration = 0],
    [BaseForm EXCEPT !.castSpeed = 300] }

InitCast ==
  initOf(CastForms, Centre, {Centre, [x |-> Centre.x + 200, y |-> Centre.y]})

StepCast ==
  stepOf(MaxCastTicks, MaxCastProj, 0, ClockAdvances, EmitDraws, RollsNow)

NextCast == StepCast \/ Start \/ Stop \/ Reset

SpecCast == InitCast /\ [][NextCast]_vars

\* the projectiles created since `firstId` was the next identifier that a
\* state shows: the live ones, the ones of the contacts and their children
createdSince(firstId, live, events) ==
  {p \in {live[j] : j \in DOMAIN live}
         \cup {events[k].before : k \in DOMAIN events}
         \cup UNION {{events[k].children[c] : c \in DOMAIN events[k].children} :
                       k \in DOMAIN events} :
     p.id >= firstId}

\* the identifiers of the children spawned at the contacts
childIds(events) ==
  UNION {{events[k].children[c].id : c \in DOMAIN events[k].children} :
           k \in DOMAIN events}

\* the projectiles a step has emitted: created by it, not as children
emittedBy(firstId, live, events) ==
  {p \in createdSince(firstId, live, events) : p.id \notin childIds(events)}

\* C15: the cast counter never decreases, in a reset either; the projectiles
\* a tick emits carry cast ids that no earlier cast had (at least the counter
\* before the tick, below the counter after it), increasing in emission
\* order, one id for the projectileCount projectiles of a cast and the next
\* id for the next cast; every split or fork child carries its parent's cast
\* id.
C15_CastIds ==
  [][ /\ nextCastId' >= nextCastId
      /\ \A j \in DOMAIN projectiles' : projectiles'[j].castId < nextCastId'
      /\ ticks' = ticks + 1 =>
           /\ \A p \in emittedBy(nextProjId, projectiles', log') :
                 /\ p.castId >= nextCastId
                 /\ p.castId < nextCastId'
                 /\ p.castId =
                      nextCastId + (p.id - nextProjId) \div config.projectileCount
           /\ \A k \in DOMAIN log' : \A c \in DOMAIN log'[k].children :
                 log'[k].children[c].castId = log'[k].before.castId
    ]_vars

\* after a reset, one tick has emitted two casts or more, whose projectiles
\* are live
C15_Witness ==
  /\ edits = 1
  /\ \E i, j \in DOMAIN projectiles :
        /\ projectiles[i].castId > projectiles[j].castId
        /\ projectiles[i].spawnTime = clock
        /\ projectiles[j].spawnTime = clock

-----------------------------------------------------------------------------
\* the projectile is gone after the step, or has been at a contact in it, or
\* is live at another place
processed(p, live, events) ==
  \/ \E k \in DOMAIN events : events[k].id = p.id
  \/ \E j \in DOMAIN live :
        live[j].id = p.id /\ << live[j].x, live[j].y >> # << p.x, p.y >>

\* C16: a tick emits a cast only when running and the accumulated time has
\* reached the cast interval; running with castSpeed > 0, it emits one cast
\* of projectileCount projectiles for every whole cast interval accumulated
\* and keeps the remainder; not running, or with castSpeed <= 0, it emits
\* nothing and leaves the cast counter as it is, and the live projectiles
\* are still expired, moved and tested against the target.
C16_CastEmission ==
  [][ ticks' = ticks + 1 =>
        LET interval == config.castInterval
            acc == castAccumulator + fixedDt
            n == nextCastId' - nextCastId
            em == emittedBy(nextProjId, projectiles', log')
        IN  /\ n >= 0
            /\ n > 0 => running /\ acc >= interval
            /\ (running /\ config.castSpeed > 0) =>
                  /\ n = acc \div interval
                  /\ castAccumulator' = acc % interval
                  /\ Cardinality({p.id : p \in em}) = n * config.projectileCount
            /\ (~running \/ config.castSpeed <= 0) =>
                  /\ n = 0
                  /\ em = {}
                  /\ ~running => castAccumulator' = castAccumulator
                  /\ \A i \in DOMAIN projectiles :
                        IF isExpired(projectiles[i], clock')
                        THEN \A j \in DOMAIN projectiles' :
                                projectiles'[j].id # projectiles[i].id
                        ELSE processed(projectiles[i], projectiles', log')
    ]_vars

\* after casts emitted every second tick, a tick made while stopped has
\* registered a hit of a live projectile
C16_Witness ==
  /\ ~running /\ config.castSpeed = 60 /\ nextCastId >= 2
  /\ \E k \in DOMAIN log : registered(log[k])

-----------------------------------------------------------------------------
\* Continuous collision detection: slow and fast projectiles (4 and 64
\* length units a tick, the latter above ten target radii), emitted at 0 or
\* 30 degrees, with the target on the caster, across the 30 degree path, and
\* beside it so that the path passes just inside the contact distance

MaxCcdTicks == 3
MaxCcdProj == 2

CcdForms ==
  { [BaseForm EXCEPT !.bossRadius = 2],
    [BaseForm EXCEPT !.bossRadius = 2, !.projSpeedMod = 48],
    [BaseForm EXCEPT !.projSpeedMod = 48, !.projectileCount = 2] }

\* emission headings 0 and 30 degrees
CcdEmitDraws == {0, 1}

CcdBossPositions ==
  { Centre,
    [x |-> Centre.x + 30, y |-> Centre.y + 20],
    [x |-> Centre.x + 5, y |-> Centre.y - 5] }

InitCcd == initOf(CcdForms, Centre, CcdBossPositions)

StepCcd ==
  stepOf(MaxCcdTicks, MaxCcdProj, 0, ClockAdvances, CcdEmitDraws, RollsNow)

NextCcd == StepCcd \/ Start \/ Stop

SpecCcd == InitCcd /\ [][NextCcd]_vars

\* the segment from (px, py) to (qx, qy) starts within R of (cx, cy) or
\* passes at less than R from it
crossesTarget(px, py, qx, qy, cx, cy, R) ==
  LET dx == qx - px
      dy == qy - py
      mx == cx - px
      my == cy - py
      len2 == dx * dx + dy * dy
      u == mx * dx + my * dy
      c == mx * mx + my * my - R * R
  IN  IF c <= 0 THEN TRUE
      ELSE IF len2 = 0 \/ u <= 0 THEN FALSE
      ELSE IF u >= len2
             THEN (qx - cx) * (qx - cx) + (qy - cy) * (qy - cy) < R * R
      ELSE c * len2 < u * u

\* where the projectile was before the step: its place among the live ones,
\* or the caster's place when the step emitted it
startOf(q) ==
  IF \E i \in DOMAIN projectiles : projectiles[i].id = q.id
  THEN LET p == CHOOSE p \in {projectiles[i] : i \in DOMAIN projectiles} :
                   p.id = q.id
       IN  [x |-> p.x, y |-> p.y]
  ELSE [x |-> caster.x, y |-> caster.y]

\* the place is farther than R from (cx, cy)
outside(x, y, cx, cy, R) ==
  (x - cx) * (x - cx) + (y - cy) * (y - cy) > R * R

-----------------------------------------------------------------------------
\* Projectile.reflect as a function: a projectile of any of the twelve
\* headings, slow or fast, reflected up to MaxReflects times about the
\* normals that the walls and corners of the arenas return

MaxReflects == 2

\* unit normals (nx, ny) / sqrt(nn): the four walls and the four corners
Normals ==
  { [nx |-> 1, ny |-> 0, nn |-> 1], [nx |-> -1, ny |-> 0, nn |-> 1],
    [nx |-> 0, ny |-> 1, nn |-> 1], [nx |-> 0, ny |-> -1, nn |-> 1],
    [nx |-> 1, ny |-> 1, nn |-> 2], [nx |-> -1, ny |-> 1, nn |-> 2],
    [nx |-> 1, ny |-> -1, nn |-> 2], [nx |-> -1, ny |-> -1, nn |-> 2] }

ReflectSpeedMods == {3, 48}

InitReflect ==
  /\ \E a \in {30 * k : k \in 0..11}, mod \in ReflectSpeedMods :
        projectiles =
          << Projectile([castId |-> 1, x |-> Centre.x, y |-> Centre.y,
                         angle |-> a,
                         speed |-> BASE_PROJ_SPEED_UNITS * mod * scale,
                         now |-> 0, duration |-> 2 * SECOND,
                         pierceCount |-> 0, forkTimes |-> 0,
                         chainCount |-> 0, splitCount |-> 0], 1, FALSE) >>
  /\ others = <<>>
  /\ accum = 0
  /\ lastTime = 0
  /\ canvas = [width |-> CANVAS, height |-> CANVAS]
  /\ running = FALSE
  /\ castAccumulator = 0
  /\ config = readConfigFromDOM(BaseForm)
  /\ caster = [x |-> Centre.x, y |-> Centre.y, r |-> 3 * scale]
  /\ boss = [x |-> Centre.x + 200, y |-> Centre.y, r |-> bossR(config)]
  /\ hitsTotal = 0
  /\ totalDamage = 0
  /\ hitTimestamps = <<>>
  /\ castTargetLocks = <<>>
  /\ nextCastId = 2
  /\ nextProjId = 2
  /\ clock = 0
  /\ ticks = 0
  /\ log = <<>>
  /\ lastHitAt = <<>>
  /\ turns = 0
  /\ edits = 0
  /\ avgHitConst = TRUE

\* proj.reflect(nx, ny); history: log keeps the projectile before and after
\* and the normal
Reflect ==
  /\ Len(log) < MaxReflects
  /\ \E n \in Normals :
       /\ projectiles' = << reflect(projectiles[1], n.nx, n.ny, n.nn) >>
       /\ log' = Append(log, [before |-> projectiles[1],
                              after |-> projectiles'[1], n |-> n])
  /\ UNCHANGED << others, accum, lastTime, canvas, running, castAccumulator,
                  config, caster, boss, hitsTotal,
                  totalDamage, hitTimestamps, castTargetLocks, nextCastId,
                  nextProjId, clock, ticks, lastHitAt, turns, edits,
                  avgHitConst >>

NextReflect == Reflect

SpecReflect == InitReflect /\ [][NextReflect]_vars

\* the direction of the velocity, in thousandths
dirX(proj) == CosMilli(proj.angle)
dirY(proj) == SinMilli(proj.angle)

\* C18: reflect about the unit normal n = (nx, ny) / sqrt(nn) maps the
\* velocity v to v - 2 (v.n) n: the component along n changes sign, the
\* component along the tangent is kept, the speed is unchanged, the heading
\* is that of the new velocity, and a second reflection about the same
\* normal gives back the velocity before the first.
C18_ReflectionLaw ==
  \A k \in DOMAIN log :
    LET e == log[k]
        ux == dirX(e.before)
        uy == dirY(e.before)
        wx == dirX(e.after)
        wy == dirY(e.after)
        n == e.n
    IN  /\ n.nn * wx = n.nn * ux - 2 * (ux * n.nx + uy * n.ny) * n.nx
        /\ n.nn * wy = n.nn * uy - 2 * (ux * n.nx + uy * n.ny) * n.ny
        /\ wx * n.nx + wy * n.ny = -(ux * n.nx + uy * n.ny)
        /\ wy * n.nx - wx * n.ny = uy * n.nx - ux * n.ny
        /\ wx * wx + wy * wy = ux * ux + uy * uy
        /\ e.after.speed = e.before.speed
        /\ Vx(e.after) = RDiv(wx * e.before.speed, 1000)
        /\ Vy(e.after) = RDiv(wy * e.before.speed, 1000)
        /\ e.after.angle \in {30 * j - 150 : j \in 0..11}
        /\ (k > 1 /\ log[k - 1].n = n) =>
              /\ Vx(e.after) = Vx(log[k - 1].before)
              /\ Vy(e.after) = Vy(log[k - 1].before)

\* a velocity oblique to a corner's normal has been reflected twice about it
C18_Witness ==
  /\ Len(log) = 2 /\ log[1].n = log[2].n /\ log[1].n.nn = 2
  /\ log[1].before.angle = 30
  /\ dirX(log[1].after) # dirX(log[1].before)
  /\ dirX(log[1].after) # -dirX(log[1].before)

-----------------------------------------------------------------------------
\* End-to-end scenario: castSpeed 1, one projectile a cast, no pierce, fork,
\* chain or split, avgHit 100, target radius 3; the target is on the caster,
\* beside it, or at the contact distance from it; the simulation is started
\* before the first tick and runs

MaxScenarioTicks == 125

ScenarioForm == [BaseForm EXCEPT !.castSpeed = 1]

ScenarioBossPositions ==
  { Centre,
    [x |-> Centre.x, y |-> Centre.y + 5],
    [x |-> Centre.x + 9, y |-> Centre.y] }

InitScenario == initOf({ScenarioForm}, Centre, ScenarioBossPositions)

\* the simulation is started before its first tick
StartScenario == ticks = 0 /\ ~running /\ Start

StepScenario ==
  /\ running
  /\ stepOf(MaxScenarioTicks, MaxProj, 0, ClockAdvances, EmitDraws, RollsNow)

NextScenario == StartScenario \/ StepScenario

SpecScenario == InitScenario /\ [][NextScenario]_vars

\* the simulated time since the start
simulated == ticks * fixedDt

\* C20: in the scenario, no hit registers before one cast interval (1 s) of
\* simulated time has passed; the tick that completes the interval emits
\* the first cast, whose projectile registers one hit at the start of that
\* tick and is removed in it; from then until the next cast, a cast interval
\* later, hitsTotal is 1 and totalDamage 100, and at every tick no projectile
\* is live.
C20_FirstHitAfterOneInterval ==
  /\ hitsTotal = simulated \div config.castInterval
  /\ totalDamage = 100 * hitsTotal
  /\ projectiles = <<>>
  /\ Len(log) <= 1
  /\ \A k \in DOMAIN log :
        /\ registered(log[k]) /\ log[k].res = "remove"
        /\ log[k].time = clock /\ simulated % config.castInterval = 0

\* the tick that completes the first second has registered the hit
C20_Witness ==
  /\ simulated = SECOND /\ hitsTotal = 1 /\ totalDamage = 100
  /\ projectiles = <<>> /\ Len(log) = 1 /\ boss.x = Centre.x + 9

\* C20 as stated: exactly one hit registers within the first 0.66 s after
\* the start, totalDamage is 100 after it and no projectile is live.
C20_OneHitInFirstWindow ==
  /\ (running /\ simulated >= PER_CAST_TARGET_COOLDOWN) => hitsTotal = 1
  /\ hitsTotal >= 1 => (totalDamage = 100 /\ projectiles = <<>>)

-----------------------------------------------------------------------------
(***************************************************************************)
(* T-junction arena: the walls, the junction and the reflections.  The     *)
(* caster stands inside the T, further than a projectile radius from every *)
(* wall, the target outside of it.                                         *)
(***************************************************************************)
MaxTJTicks == 4
MaxTJProj == 1

\* canvas sizes (this.width, this.height) whose computeScale() is `scale`
TJCanvases ==
  { cv \in [width : {CANVAS, CANVAS + 320}, height : {CANVAS, CANVAS + 320}] :
      computeScale(cv.width, cv.height) = scale }

\* this.arena of a Simulation on the canvas cv
arenaOf(cv) == TJunctionArena(cv.width, cv.height, scale)

\* the coordinates of the outline, read from the segments
stemLeftX(A) == A[1].x1
stemRightX(A) == A[2].x1
stemBotY(A) == A[1].y2
barBotY(A) == A[1].y1
barTopY(A) == A[4].y1
barLeftX(A) == A[4].x1
barRightX(A) == A[4].x2

TJForms ==
  { [BaseForm EXCEPT !.arenaType = "tjunction"],
    [BaseForm EXCEPT !.arenaType = "tjunction", !.projSpeedMod = 12] }

\* emission headings 0, 90, 180 and 270 degrees
TJEmitDraws == {0, 3, 6, 9}

\* caster positions (pointer drags or URL parameters): on the stem centre
\* line below the junction, and 4 px from each of the eight walls
TJCasterPositions(cv) ==
  LET A == arenaOf(cv)
      cx == cv.width \div 2
      at(x, y) == [x |-> x, y |-> y]
  IN  { at(cx, barBotY(A) + 2),
        at(cx, barBotY(A) + 40),
        at(stemLeftX(A) + 8, barBotY(A) + 40),
        at(stemRightX(A) - 8, barBotY(A) + 40),
        at(cx, stemBotY(A) - 8),
        at(cx, barTopY(A) + 8),
        at(barLeftX(A) + 100, barBotY(A) - 8),
        at(barRightX(A) - 100, barBotY(A) - 8),
        at(barLeftX(A) + 8, barTopY(A) + 80),
        at(barRightX(A) - 8, barTopY(A) + 80) }

\* the target, left of the stem and below the bar
TJBossPosition(cv) == [x |-> 100, y |-> cv.height - 100]

InitTJ ==
  \E cv \in TJCanvases :
     initAt(cv, TJForms, TJCasterPositions(cv), {TJBossPosition(cv)})

StepTJ == stepOf(MaxTJTicks, MaxTJProj, 0, {fixedDt}, TJEmitDraws, {0})

NextTJ == StepTJ \/ Start \/ Stop

SpecTJ == InitTJ /\ [][NextTJ]_vars

\* the current arena
arena == arenaOf(canvas)

\* wall w is horizontal / vertical
horizontal(w) == w.y1 = w.y2
vertical(w) == w.x1 = w.x2
loX(w) == Min(w.x1, w.x2)
hiX(w) == Max(w.x1, w.x2)
loY(w) == Min(w.y1, w.y2)
hiY(w) == Max(w.y1, w.y2)

\* the end points of a wall
ends(w) == {<< w.x1, w.y1 >>, << w.x2, w.y2 >>}

\* the walls A form one closed outline: every end point of a wall is an end
\* point of exactly two walls, and every wall is parallel to an axis
closedOutline(A) ==
  \A i \in DOMAIN A :
     /\ horizontal(A[i]) \/ vertical(A[i])
     /\ \A e \in ends(A[i]) :
           Cardinality({j \in DOMAIN A : e \in ends(A[j])}) = 2

\* wall w meets the open gap of the bar's bottom edge between the stem walls
meetsGap(A, w) ==
  /\ loY(w) <= barBotY(A) /\ barBotY(A) <= hiY(w)
  /\ hiX(w) > stemLeftX(A) /\ loX(w) < stemRightX(A)

\* the part from x = lo to x = hi of the bar's bottom edge is a wall
walled(A, lo, hi) ==
  \E i \in DOMAIN A :
     /\ horizontal(A[i]) /\ A[i].y1 = barBotY(A)
     /\ loX(A[i]) <= lo /\ hi <= hiX(A[i])

\* the walls leave one opening, between the two stem side walls at the
\* bar's bottom edge, and cover the rest of the T outline
oneOpening(A) ==
  /\ closedOutline(A)
  /\ barLeftX(A) < stemLeftX(A) /\ stemLeftX(A) < stemRightX(A)
  /\ stemRightX(A) < barRightX(A)
  /\ barTopY(A) < barBotY(A) /\ barBotY(A) < stemBotY(A)
  \* the two stem side walls start at the bar's bottom edge
  /\ vertical(A[1]) /\ vertical(A[2])
  /\ loY(A[1]) = barBotY(A) /\ loY(A[2]) = barBotY(A)
  /\ hiY(A[1]) = stemBotY(A) /\ hiY(A[2]) = stemBotY(A)
  \* no wall between them, walls on both sides of them
  /\ \A i \in DOMAIN A : ~meetsGap(A, A[i])
  /\ walled(A, barLeftX(A), stemLeftX(A))
  /\ walled(A, stemRightX(A), barRightX(A))

\* sides of canvases of several scales (the scale 1 at its lower limit, and
\* the scales 1 to 4)
TJSides == {200, 400, CANVAS, CANVAS + 320, CANVAS + 640}

\* the arena of every canvas of these sides, at the scale of the canvas
EveryCanvasOneOpening ==
  \A w \in TJSides, h \in TJSides :
     oneOpening(TJunctionArena(w, h, computeScale(w, h)))

\* the point (x, y) is in the T (bar or stem, walls included)
inT(A, x, y) ==
  \/ /\ barLeftX(A) <= x /\ x <= barRightX(A)
     /\ barTopY(A) <= y /\ y <= barBotY(A)
  \/ /\ stemLeftX(A) <= x /\ x <= stemRightX(A)
     /\ barBotY(A) <= y /\ y <= stemBotY(A)

\* the distance a projectile of speed `speed` flies in one tick
tickDist(speed) == (speed * fixedDt) \div SECOND

\* the straight path of one tick from (x, y) along `angle` (parallel to an
\* axis) comes within r of wall w
reaches(x, y, angle, speed, r, w) ==
  LET ex == x + (CosMilli(angle) * tickDist(speed)) \div TONE
      ey == y + (SinMilli(angle) * tickDist(speed)) \div TONE
      gx == Max(0, Max(Min(x, ex) - hiX(w), loX(w) - Max(x, ex)))
      gy == Max(0, Max(Min(y, ey) - hiY(w), loY(w) - Max(y, ey)))
  IN  gx * gx + gy * gy <= r * r

\* the reflections of projectile id logged in the last step
bouncesOf(events, id) ==
  {k \in DOMAIN events : events[k].before.id = id}

\* the projectile q (after a step) at the start of the step: as it was, or
\* as emitCast made it at the caster
atStart(q) ==
  IF \E i \in DOMAIN projectiles : projectiles[i].id = q.id
  THEN LET i == CHOOSE i \in DOMAIN projectiles : projectiles[i].id = q.id
       IN  projectiles[i]
  ELSE [q EXCEPT !.x = caster.x, !.y = caster.y, !.bounces = 0,
                 !.angle = IF bouncesOf(log', q.id) = {} THEN q.angle
                           ELSE log'[CHOOSE k \in bouncesOf(log', q.id) :
                                       \A j \in bouncesOf(log', q.id) : k <= j]
                                  .before.angle]

\* the tick of q, from p: it flew straight up the stem centre line through
\* the junction
crossedJunction(p, q) ==
  /\ p.x = canvas.width \div 2 /\ p.angle % 360 = 270
  /\ p.y > barBotY(arena) /\ p.y <= stemBotY(arena)
  /\ p.y - tickDist(p.speed) <= barBotY(arena)

-----------------------------------------------------------------------------
(***************************************************************************)
(* Simulation.loop: the frames of the host and the fixed-timestep          *)
(* accumulator                                                             *)
(***************************************************************************)
\* steps in one behaviour
MaxLoopTicks == 8

\* Variant of frameDt without the clamp
frameDtUnclamped(gap) == gap

\* dt = Math.min((now - this.lastTime) / 1000, 0.05)
frameDt(gap) == Min(gap, maxFrameDt)

\* while (this.accum >= this.fixedDt) { this.step(this.fixedDt);
\* this.accum -= this.fixedDt }: count is the number of steps made (a frame
\* of more steps than MaxLoopTicks is cut off by Loop's guard).  No
\* projectile wanders, the fork roll is 0.
RECURSIVE whileLoop(_, _, _, _, _)
whileLoop(S, acc, count, now, rnd) ==
  IF acc >= fixedDt /\ count <= MaxLoopTicks
  THEN whileLoop(step(S, now, rnd, << >>, << >>), acc - fixedDt, count + 1,
                 now, rnd)
  ELSE [S |-> S, accum |-> acc, count |-> count]

\* gaps between two frames: a fraction of a step, one step, two frames of a
\* 60 Hz display, the clamp, a late frame, a stalled host
FrameGaps == {10, fixedDt, 40, maxFrameDt, 200, SECOND}

LoopForms ==
  { [BaseForm EXCEPT !.duration = 0],
    [BaseForm EXCEPT !.castSpeed = 0] }

\* the target is out of the projectiles' reach
InitLoop == initOf(LoopForms, Centre, {[Centre EXCEPT !.x = @ + 200]})

\* loop(t): one frame of the host, t = lastTime + gap
Loop ==
  \E gap \in FrameGaps, rnd \in [1..config.projectileCount -> {0}] :
     /\ lastTime' = lastTime + gap
     /\ \E r \in {whileLoop(Sim, accum + frameDt(gap), 0, lastTime + gap,
                            rnd)} :
          /\ ticks + r.count <= MaxLoopTicks
          /\ accum' = r.accum
          /\ ticks' = ticks + r.count
          /\ clock' = IF r.count > 0 THEN lastTime + gap ELSE clock
          /\ projectiles' = r.S.projectiles
          /\ castAccumulator' = r.S.castAccumulator
          /\ hitsTotal' = r.S.hitsTotal
          /\ totalDamage' = r.S.totalDamage
          /\ hitTimestamps' = r.S.hitTimestamps
          /\ castTargetLocks' = r.S.castTargetLocks
          /\ nextCastId' = r.S.nextCastId
          /\ nextProjId' = r.S.nextProjId
          /\ log' = r.S.log
          /\ lastHitAt' = r.S.lastHitAt
     /\ UNCHANGED << others, canvas, running, config, caster, boss, turns,
                     edits, avgHitConst >>

NextLoop == Loop \/ Start \/ Stop

SpecLoop == InitLoop /\ [][NextLoop]_vars

\* C21: a frame feeds at most 0.05 s into the accumulator whatever the gap
\* since the previous frame (and the whole gap when it is shorter), so it
\* runs at most 6 steps, and the accumulator it leaves is below one fixed
\* step: the excess time is dropped
C21_FrameFeedsAtMostTheClamp ==
  [][lastTime' # lastTime =>
       LET gap == lastTime' - lastTime
           made == ticks' - ticks
           fed == accum' + made * fixedDt - accum
       IN  /\ fed <= SECOND \div 20
           /\ gap <= SECOND \div 20 => fed = gap
           /\ made <= 6
           /\ 0 <= accum' /\ accum' < fixedDt
     ]_vars

\* a stalled host: after a first frame of 10 time units a frame comes one
\* second later, six steps were made and the accumulator is back at 10
C21_Witness ==
  /\ lastTime = SECOND + 10
  /\ ticks = 6
  /\ accum = 10
  /\ running

-----------------------------------------------------------------------------
(***************************************************************************)
(* The swept tests as functions: sweptCircleHitT against the target and    *)
(* sweptCircleSegmentTOI against the walls of the T-junction, called with  *)
(* the positions of the caster and of the target and a displacement of one *)
(* substep.  log keeps the calls and their results.                        *)
(***************************************************************************)
\* calls in one behaviour
MaxQueries == 2

\* displacements of one substep: none, 2 px along an axis, a diagonal
Displacements ==
  { << 0, 0 >>, << 4, 0 >>, << -4, 0 >>, << 0, 4 >>, << 0, -4 >>,
    << 3, 2 >>, << -3, -2 >> }

\* start positions by the left wall of the stem (x = stemLeftX): closer to
\* it than the radius of a projectile, at the radius, further; and by the
\* corner of the junction
SweepStarts ==
  LET A == arenaOf([width |-> CANVAS, height |-> CANVAS])
  IN  { [x |-> stemLeftX(A) + d, y |-> barBotY(A) + 100] : d \in {1, 2, 3, 4, 8} }
      \cup { [x |-> stemLeftX(A) + 2, y |-> barBotY(A) - 2] }

\* the target relative to the start: on it, within and out of the contact
\* distance
SweepTargetOffsets == {0, 5, 12}

SweepForms ==
  { [BaseForm EXCEPT !.arenaType = "tjunction"],
    [BaseForm EXCEPT !.arenaType = "tjunction", !.bossRadius = 1] }

InitSweep ==
  \E start \in SweepStarts :
     initAt([width |-> CANVAS, height |-> CANVAS], SweepForms, {start},
            {[x |-> start.x + off, y |-> start.y] : off \in SweepTargetOffsets})

\* sweptCircleHitT(proj.x, proj.y, dx, dy, this.boss.x, this.boss.y, R) for
\* a projectile at the caster
QueryCircle ==
  /\ Len(log) < MaxQueries
  /\ \E d \in Displacements :
       LET R == (PROJ_RADIUS_UNITS_X2 * scale) \div 2 + boss.r
       IN  log' = Append(log,
                         [circle |-> TRUE, px |-> caster.x, py |-> caster.y,
                          dx |-> d[1], dy |-> d[2],
                          cx |-> boss.x, cy |-> boss.y, R |-> R,
                          t |-> sweptCircleHitT(caster.x, caster.y, d[1], d[2],
                                                boss.x, boss.y, R)])
  /\ UNCHANGED << others, accum, lastTime, canvas, projectiles, running,
                  castAccumulator, config, caster, boss, hitsTotal,
                  totalDamage, hitTimestamps, castTargetLocks, nextCastId,
                  nextProjId, clock, ticks, lastHitAt, turns, edits,
                  avgHitConst >>

\* sweptCircleSegmentTOI(p0x, p0y, dx, dy, seg.x1, seg.y1, seg.x2, seg.y2,
\* proj.radius) for a projectile at the caster and a wall of this.arena
QuerySegment ==
  /\ Len(log) < MaxQueries
  /\ \E d \in Displacements, i \in DOMAIN arena :
       LET r == (PROJ_RADIUS_UNITS_X2 * scale) \div 2
           seg == arena[i]
       IN  log' = Append(log,
                         [circle |-> FALSE, px |-> caster.x, py |-> caster.y,
                          dx |-> d[1], dy |-> d[2], seg |-> seg, r |-> r,
                          t |-> sweptCircleSegmentTOI(
                                   caster.x, caster.y, d[1], d[2],
                                   seg.x1, seg.y1, seg.x2, seg.y2, r).t])
  /\ UNCHANGED << others, accum, lastTime, canvas, projectiles, running,
                  castAccumulator, config, caster, boss, hitsTotal,
                  totalDamage, hitTimestamps, castTargetLocks, nextCastId,
                  nextProjId, clock, ticks, lastHitAt, turns, edits,
                  avgHitConst >>

NextSweep == QueryCircle \/ QuerySegment

SpecSweep == InitSweep /\ [][NextSweep]_vars

\* C22: sweptCircleHitT called with zero displacement returns null, for
\* every start position and combined radius
C22_ZeroDisplacementNoHit ==
  \A k \in DOMAIN log :
     (log[k].circle /\ log[k].dx = 0 /\ log[k].dy = 0) => log[k].t = null


\* square of the distance from the point (px, py) to the wall seg (walls
\* are parallel to an axis)
distToWallSq(px, py, seg) ==
  LET cx == clamp(px, Min(seg.x1, seg.x2), Max(seg.x1, seg.x2))
      cy == clamp(py, Min(seg.y1, seg.y2), Max(seg.y1, seg.y2))
  IN  (px - cx) * (px - cx) + (py - cy) * (py - cy)

\* C25: a contact that sweptCircleSegmentTOI reports at a time t > 0 is a
\* first impact: the circle's centre starts farther than r from the wall
\* (a circle that starts closer than r and moves away is not reported when
\* it leaves the strip)
C25_ContactIsFirstImpact ==
  \A k \in DOMAIN log :
     (~log[k].circle /\ log[k].t # null /\ log[k].t > 0)
        => distToWallSq(log[k].px, log[k].py, log[k].seg)
             > log[k].r * log[k].r

-----------------------------------------------------------------------------
\* the children spawned at the contacts of a step, as they were made
childrenOf(events) ==
  UNION {{events[k].children[c] : c \in DOMAIN events[k].children} :
           k \in DOMAIN events}

\* C23: the pass of a tick over the live projectiles visits the projectiles
\* that were live or emitted before it began: a child spawned by split or
\* fork in the tick is not tested against the target in that tick, and is
\* live after it where it was spawned
C23_ChildrenNotVisitedInSpawningTick ==
  \A c \in childrenOf(log) :
     /\ \A k \in DOMAIN log : log[k].id # c.id
     /\ \E j \in DOMAIN projectiles :
           /\ projectiles[j].id = c.id
           /\ projectiles[j].x = c.x /\ projectiles[j].y = c.y

(***************************************************************************)
(* Bootstrap and resize: every resize makes a new Simulation on the same    *)
(* canvas; the one before is not stopped, its loop and its listeners stay   *)
(***************************************************************************)
MaxResizes == 1
MaxResizeTicks == 3
MaxOtherSteps == 2
MaxResizeProj == 2

ResizeForms == { BaseForm, [BaseForm EXCEPT !.pierceCount = 1] }

\* a Simulation's own fields, as kept in others
fieldsOf(S, n) ==
  [ canvas |-> S.canvas, projectiles |-> S.projectiles,
    running |-> S.running, castAccumulator |-> S.castAccumulator,
    config |-> S.config, caster |-> S.caster, boss |-> S.boss,
    hitsTotal |-> S.hitsTotal, totalDamage |-> S.totalDamage,
    hitTimestamps |-> S.hitTimestamps,
    castTargetLocks |-> S.castTargetLocks, steps |-> n ]

\* new Simulation(canvas) next to prev, before resize() fills it in
constructed(prev) ==
  [ canvas |-> prev.canvas, projectiles |-> <<>>, running |-> FALSE,
    castAccumulator |-> 0, config |-> prev.config,
    caster |-> [prev.caster EXCEPT !.r = 3 * scale],
    boss |-> [prev.boss EXCEPT !.r = bossR(prev.config)],
    hitsTotal |-> 0, totalDamage |-> 0, hitTimestamps |-> <<>>,
    castTargetLocks |-> <<>>, steps |-> 0 ]

\* resize() with window.__sim = prev and a container of unchanged size
\* (ratio = 1): the new window.__sim
resized(prev) ==
  [constructed(prev) EXCEPT !.projectiles = prev.projectiles,
                            !.running = prev.running]

\* DOMContentLoaded: window.__sim = new Simulation(canvas); resize()
InitResize ==
  /\ \E form \in ResizeForms, pos \in {Centre, [Centre EXCEPT !.x = @ + 12]} :
       LET first ==
             [ canvas |-> [width |-> CANVAS, height |-> CANVAS],
               projectiles |-> <<>>, running |-> FALSE,
               castAccumulator |-> 0, config |-> readConfigFromDOM(form),
               caster |-> [x |-> Centre.x, y |-> Centre.y, r |-> 3 * scale],
               boss |-> [x |-> pos.x, y |-> pos.y,
                         r |-> bossR(readConfigFromDOM(form))],
               hitsTotal |-> 0, totalDamage |-> 0, hitTimestamps |-> <<>>,
               castTargetLocks |-> <<>>, steps |-> 0 ]
           sim == resized(first)
       IN  /\ others = << first >>
           /\ canvas = sim.canvas
           /\ projectiles = sim.projectiles
           /\ running = sim.running
           /\ castAccumulator = sim.castAccumulator
           /\ config = sim.config
           /\ caster = sim.caster
           /\ boss = sim.boss
           /\ hitsTotal = sim.hitsTotal
           /\ totalDamage = sim.totalDamage
           /\ hitTimestamps = sim.hitTimestamps
           /\ castTargetLocks = sim.castTargetLocks
  /\ accum = 0
  /\ lastTime = 0
  /\ nextCastId = 1
  /\ nextProjId = 1
  /\ clock = 0
  /\ ticks = 0
  /\ log = <<>>
  /\ lastHitAt = <<>>
  /\ turns = 0
  /\ edits = 0
  /\ avgHitConst = TRUE

\* resize event of the window
Resize ==
  /\ Len(others) < 1 + MaxResizes
  /\ \E sim \in {resized(Sim)} :
       /\ others' = Append(others, fieldsOf(Sim, 0))
       /\ projectiles' = sim.projectiles
       /\ running' = sim.running
       /\ castAccumulator' = sim.castAccumulator
       /\ caster' = sim.caster
       /\ boss' = sim.boss
       /\ hitsTotal' = sim.hitsTotal
       /\ totalDamage' = sim.totalDamage
       /\ hitTimestamps' = sim.hitTimestamps
       /\ castTargetLocks' = sim.castTargetLocks
  /\ accum' = 0
  /\ lastTime' = clock
  /\ log' = <<>>
  /\ avgHitConst' = TRUE
  /\ UNCHANGED << canvas, config, nextCastId, nextProjId, clock, ticks,
                  lastHitAt, turns, edits >>

\* loop of an older Simulation: step(fixedDt) of others[k] in the frame of
\* the wall clock's present value
StepOther ==
  \E k \in DOMAIN others :
     LET O == others[k]
         S0 == [ canvas |-> O.canvas, projectiles |-> O.projectiles,
                 running |-> O.running,
                 castAccumulator |-> O.castAccumulator, config |-> O.config,
                 caster |-> O.caster, boss |-> O.boss,
                 hitsTotal |-> O.hitsTotal, totalDamage |-> O.totalDamage,
                 hitTimestamps |-> O.hitTimestamps,
                 castTargetLocks |-> O.castTargetLocks,
                 nextCastId |-> nextCastId, nextProjId |-> nextProjId,
                 survivors |-> <<>>, log |-> <<>>, dead |-> <<>>,
                 lastHitAt |-> lastHitAt, visited |-> 0 ]
     IN  /\ O.steps < MaxOtherSteps
         /\ O.running
         /\ \E S \in {step(S0, clock,
                           [i \in 1..O.config.projectileCount |-> 0],
                           [i \in 1..MaxResizeProj |-> 0],
                           [i \in 1..MaxResizeProj |-> 0])} :
              /\ S.visited <= MaxResizeProj
              /\ others' = [sharedWith(others, S) EXCEPT
                              ![k] = fieldsOf(S, O.steps + 1)]
              /\ projectiles' = syncObjects(projectiles, S)
              /\ nextCastId' = S.nextCastId
              /\ nextProjId' = S.nextProjId
              /\ lastHitAt' = S.lastHitAt
              /\ log' = <<>>
         /\ UNCHANGED << accum, lastTime, canvas, running, castAccumulator,
                         config, caster, boss, hitsTotal, totalDamage,
                         hitTimestamps, castTargetLocks, clock, ticks, turns,
                         edits, avgHitConst >>

StepResize ==
  stepOf(MaxResizeTicks, MaxResizeProj, 0, {fixedDt}, {0}, {0})

NextResize == StepResize \/ StepOther \/ Resize \/ Start \/ Stop

SpecResize == InitResize /\ [][NextResize]_vars

\* C24: the live projectile list and the cooldown ledger of window.__sim
\* change only in a step of window.__sim or in its reset: no resize and no
\* step of another Simulation changes either of them
C24_OnlyTheStepperWrites ==
  [][(ticks' = ticks /\ edits' = edits)
       => UNCHANGED << projectiles, castTargetLocks >>]_vars

(***************************************************************************)
(* Circle and square arenas: caster and target anywhere on the canvas        *)
(***************************************************************************)
MaxArenaTicks == 4
MaxArenaProj == 4

ArenaForms ==
  { [f EXCEPT !.arenaType = a] :
      a \in {"circle", "square"},
      f \in { BaseForm,
              [BaseForm EXCEPT !.projSpeedMod = 12],
              [BaseForm EXCEPT !.splitCount = 2, !.pierceCount = 1,
                               !.castSpeed = 40] } }

\* URL parameters cx, cy: the centre, by the right-hand boundary, inside the
\* square but outside the circle, outside both
ArenaCasterPositions ==
  { Centre,
    [Centre EXCEPT !.x = @ + ARENA_RADIUS_UNITS * scale - 4],
    [x |-> Centre.x + 250, y |-> Centre.y + 250],
    [x |-> 10, y |-> 10] }

\* URL parameters bx, by: outside both arenas, and by the right-hand boundary
ArenaBossPositions ==
  { [x |-> 10, y |-> 10],
    [Centre EXCEPT !.x = @ + ARENA_RADIUS_UNITS * scale - 4] }

ArenaEmitDraws == {0, 4, 9}

InitArena ==
  initAt([width |-> CANVAS, height |-> CANVAS], ArenaForms,
         ArenaCasterPositions, ArenaBossPositions)

StepArena ==
  stepOf(MaxArenaTicks, MaxArenaProj, 0, {fixedDt}, ArenaEmitDraws, {0})

NextArena == StepArena \/ Start \/ Stop

SpecArena == InitArena /\ [][NextArena]_vars

\* the point (x, y) is inside the arena's boundary shrunk by r
insideShrunk(x, y, r) ==
  IF config.arenaType = "square"
  THEN /\ rect.x + r <= x /\ x <= rect.x + rect.w - r
       /\ rect.y + r <= y /\ y <= rect.y + rect.h - r
  ELSE (x - circleArena.center.x) * (x - circleArena.center.x)
         + (y - circleArena.center.y) * (y - circleArena.center.y)
         <= (circleArena.radius - r) * (circleArena.radius - r)

MaxUnlimitedTicks == 3
MaxUnlimitedProj == 4

UnlimitedForms ==
  { [BaseForm EXCEPT !.duration = -1, !.splitCount = 2],
    [BaseForm EXCEPT !.duration = -1, !.forkTimes = 1],
    [BaseForm EXCEPT !.duration = -1, !.pierceCount = 1, !.forkTimes = 1,
                     !.forkChance = 100] }

InitUnlimited ==
  initOf(UnlimitedForms, Centre, {Centre, [Centre EXCEPT !.x = @ + 12]})

StepUnlimited ==
  stepOf(MaxUnlimitedTicks, MaxUnlimitedProj, 0, ClockAdvances, {0, 3}, {0})

NextUnlimited == StepUnlimited \/ Start \/ Stop

SpecUnlimited == InitUnlimited /\ [][NextUnlimited]_vars

\* C27: every projectile of a configuration with unlimited duration is
\* unlimited, the children spawned by split and fork included: none of them
\* can be removed by age
C27_ChildrenOfUnlimitedAreUnlimited ==
  config.duration < 0
    => \A i \in DOMAIN projectiles : projectiles[i].duration < 0

-----------------------------------------------------------------------------
\* the contacts of the last step at which a hit registered
registeredIn(events) ==
  {k \in DOMAIN events : events[k].hitsAfter > events[k].hitsBefore}

\* the contacts of the last step made by projectiles spawned in that step
contactsOfChildren(events) ==
  {k \in DOMAIN events : \E c \in childrenOf(events) : c.id = events[k].id}

\* C28: in one call of step at most one hit registers per cast id; a child
\* spawned during the step registers no hit and spawns no children in that
\* step, so the children of a step are one generation
C28_OneHitPerCastPerStep ==
  /\ \A j, k \in registeredIn(log) : log[j].castId = log[k].castId => j = k
  /\ \A k \in contactsOfChildren(log) :
        /\ log[k].hitsAfter = log[k].hitsBefore
        /\ log[k].children = <<>>
        /\ log[k].locksAfter = log[k].locksBefore

\* a step in which a hit registered, children were spawned inside the
\* target and one of them was tested against the target in the same step
C28_Witness ==
  /\ registeredIn(log) # {}
  /\ contactsOfChildren(log) # {}
  /\ C28_OneHitPerCastPerStep

(***************************************************************************)
(* Cast speed edited while running: cast speeds 0, 40 and 120 per second    *)
(***************************************************************************)
MaxBurstTicks == 4
MaxBurstProj == 5

\* projectiles of duration 0 (they expire at the next tick)
BurstForms ==
  { [BaseForm EXCEPT !.duration = 0, !.castSpeed = 0],
    [BaseForm EXCEPT !.duration = 0, !.castSpeed = 40],
    [BaseForm EXCEPT !.duration = 0] }

\* the target is out of the projectiles' reach
InitBurst == initOf(BurstForms, Centre, {[Centre EXCEPT !.x = @ + 200]})

StepBurst == stepOf(MaxBurstTicks, MaxBurstProj, 0, {fixedDt}, {0}, {0})

ConfigInputBurst == configInputOf(BurstForms)

NextBurst == StepBurst \/ Start \/ Stop \/ ConfigInputBurst

SpecBurst == InitBurst /\ [][NextBurst]_vars

\* Math.ceil(fixedDt * castSpeed): the casts that one tick's time can pay
\* for at the cast speed in force
castsPerTick == Max(0, CeilDiv(fixedDt * config.castSpeed, SECOND))

\* C29: the casts emitted in one tick are at most ceil(fixedDt x castSpeed)
\* for the cast speed in force at that tick, whatever the configuration
\* was in earlier ticks
C29_NoBurstAfterRaisingCastSpeed ==
  [][ticks' = ticks + 1 => nextCastId' - nextCastId <= castsPerTick]_vars

(***************************************************************************)
(* Branching: one projectile per cast, split and fork budgets, the wall    *)
(* clock advancing by a tick or by the cooldown                            *)
(***************************************************************************)
MaxBranchTicks == 4
MaxBranchProj == 9

\* the target is large enough for several generations to hit it
BranchForms ==
  { [f EXCEPT !.bossRadius = 20] :
      f \in { [BaseForm EXCEPT !.splitCount = 2, !.forkTimes = 1,
                               !.forkChance = 100],
              [BaseForm EXCEPT !.forkTimes = 2, !.forkChance = 100],
              [BaseForm EXCEPT !.splitCount = 1, !.forkTimes = 1,
                               !.forkChance = 50, !.pierceCount = 1] } }

InitBranch == initOf(BranchForms, Centre, {Centre, [Centre EXCEPT !.x = @ + 12]})

StepBranch ==
  stepOf(MaxBranchTicks, MaxBranchProj, 0, ClockAdvances, {0}, RollsNow)

NextBranch == StepBranch \/ Start \/ Stop

SpecBranch == InitBranch /\ [][NextBranch]_vars

RECURSIVE power(_, _)
power(b, e) == IF e <= 0 THEN 1 ELSE b * power(b, e - 1)

\* the live projectiles of a cast: with one projectile per cast, the emitted
\* projectile or its live descendants
lineage(c) == {i \in DOMAIN projectiles : projectiles[i].castId = c}

\* the contacts of the last step at which the projectile split
splitsIn(events) ==
  {k \in DOMAIN events :
     events[k].after.hasSplit /\ ~events[k].before.hasSplit}

\* C30: along an ancestor chain split fires at most once (no descendant of
\* a split splits) and fork at most F times (the fork budget left is never
\* negative, and every fork spends one), so the live descendants of one
\* emitted projectile are at most max(S, 1) x 3^F
C30_BranchingBounded ==
  /\ \A k \in splitsIn(log) : ~log[k].before.splitAncestor
  /\ \A i \in DOMAIN projectiles :
        /\ 0 <= projectiles[i].forkRemaining
        /\ projectiles[i].forkRemaining <= config.forkTimes
  /\ \A k \in DOMAIN log : \A c \in DOMAIN log[k].children :
        log[k].children[c].splitCount = 0
  /\ \A c \in 1..nextCastId :
        Cardinality(lineage(c))
          <= Max(config.splitCount, 1) * power(3, config.forkTimes)

\* one emitted projectile has split in two and both children have forked in
\* three: six live descendants, the bound for S = 2, F = 1
C30_Witness ==
  /\ config.splitCount = 2 /\ config.forkTimes = 1
  /\ \E c \in 1..nextCastId :
        /\ Cardinality(lineage(c)) = 6
        /\ \A i \in lineage(c) : /\ projectiles[i].splitAncestor
                                 /\ projectiles[i].forkRemaining = 0

====
